---------------------------- MODULE Spec2Model ----------------------------
(***************************************************************************)
(* Rewrite Safety & Retrieval Engine of tobacco-writing-system.            *)
(*                                                                         *)
(* Texts are sequences of characters.  An ASCII character is the string    *)
(* holding it ("1", "%", "{", "D"); a CJK character is named by its pinyin *)
(* ("nian" for U+5E74, "yue" for U+6708, "ri" for U+65E5, ...), and the    *)
(* full-width comma is "fwcomma".                                          *)
(***************************************************************************)
EXTENDS Integers, Sequences, FiniteSets, TLC

VARIABLES
    \* ConstraintDecoder (src/core/constraint_decoder.py)
    config,        \* the loaded configuration: whitelist orgs, allow-patterns
    text,          \* the original text of the rewrite request
    entities,      \* result of extract_entities
    ph_text,       \* text with placeholders (to_placeholders)
    mapping,       \* placeholder key -> value, in insertion order
    generated,     \* what the generation step returned
    restored,      \* result of restore
    verdict,       \* result of verify_entities
    numbers,       \* what check_new_numbers returned to verify_entities
    warnings,      \* number of warnings restore has logged
    dpc,           \* position of the rewrite request
    \* IntelligentRetriever (src/knowledge_base/intelligent_retriever.py)
    articles,      \* self.articles
    ir_index,      \* self.vocab, self.idf_scores, self.bm25_index
    \* XHFSampleRetriever (src/core/xhf_sample_retriever.py)
    samples,       \* self.samples
    xhf_index,     \* self.doc_lengths, self.avg_doc_length, self.idf
    top_k,         \* self.top_k
    \* a retrieval request to the constructed retriever
    request,       \* the call being served: operation, query, filter, k
    results,       \* what the call returned
    rpc,           \* position of the retrieval request
    \* BM25KnowledgeRetriever (src/core/knowledge_retriever.py)
    kcorpus,       \* self.corpus
    ktokenized,    \* self.tokenized_corpus
    kcache,        \* the lru_cache of search, most recently used first
    kthreads,      \* each calling thread: its call, locals and position
    \* api_retry (src/agents/few_shot_rewriter.py)
    retry,         \* one call of a wrapped function: arguments, loop state,
                   \* the errors raised, the delays slept and the outcome
    \* XHFQualityChecker and RewritePostProcessor (src/core)
    fcall          \* one call of a checking or post-processing function:
                   \* its name, its arguments and what it returned

decVars == <<config, text, entities, ph_text, mapping, generated, restored,
             verdict, numbers, warnings, dpc>>

retVars == <<articles, ir_index, samples, xhf_index, top_k, request, results,
             rpc>>

knowVars == <<kcorpus, ktokenized, kcache, kthreads>>

wrapVars == <<retry>>

funVars == <<fcall>>

vars == <<decVars, retVars, knowVars, wrapVars, funVars>>

\* What the steps of one component leave alone.
notDecoder == <<retVars, knowVars, wrapVars, funVars>>

notRetriever == <<decVars, knowVars, wrapVars, funVars>>

notKnowledge == <<decVars, retVars, wrapVars, funVars>>

notRetry == <<decVars, retVars, knowVars, funVars>>

notFunction == <<decVars, retVars, knowVars, wrapVars>>

---------------------------------------------------------------------------
(* Characters and strings *)

Digits == {"0", "1", "2", "3", "4", "5", "6", "7", "8", "9"}

UpperLetters == {"A", "B", "C", "D", "E", "F", "G", "H", "I", "J", "K", "L",
                 "M", "N", "O", "P", "Q", "R", "S", "T", "U", "V", "W", "X",
                 "Y", "Z"}

LowerLetters == {"a", "b", "c", "d", "e", "f", "g", "h", "i", "j", "k", "l",
                 "m", "n", "o", "p", "q", "r", "s", "t", "u", "v", "w", "x",
                 "y", "z"}

\* The characters of the CJK range U+4E00..U+9FA5 that the texts of the model use.
CJK == {"nian", "yue", "ri", "wan", "yi", "qian", "bai", "yuan", "ge",
        "xiang", "tiao", "ren", "ci", "yan", "cao", "zhuan", "mai", "ju",
        "gong", "si", "zong", "mou", "sheng", "shi", "guo", "jia",
        "juan", "ye", "ying", "xiao", "shou", "jian", "guan", "sheng1",
        "chan", "hui", "yi4", "zhao", "kai", "ju3", "ban", "huo", "dong",
        "gong1", "zuo", "fa", "zhan", "jian4", "she", "li", "tong", "bi",
        "zeng", "zhang", "xia", "jiang", "ti", "sheng2", "you", "hua",
        "tui", "jin", "luo", "shi2", "bu", "shu", "huan", "shu4", "ju4",
        "tong3", "ji", "fen", "xi", "shou1", "ru", "zheng", "ce", "tong1",
        "zhi", "gao", "gui", "ding", "dian", "xing", "xian", "an",
        "li4", "jing", "yan4", "zhi4", "du", "hang", "ye4", "chang", "xu",
        "ke", "zheng4", "du2", "jian3", "cha", "shui", "cai", "fu", "wu",
        "fan", "zhi3", "ze", "qi", "ji2", "tuan", "ting", "chang3", "zhong",
        "xin", "xiang1", "jian5"}

\* A local variable: body(v) with v the value of e, computed once.
Bind(e, body(_)) == CHOOSE r \in {body(v) : v \in {e}} : TRUE

\* s[q], or "" past the end of s.
At(s, q) == IF q >= 1 /\ q <= Len(s) THEN s[q] ELSE ""

Slice(s, p, n) == SubSeq(s, p, p + n - 1)

\* Whether v occurs in s at position p.
OccursAt(s, v, p) ==
    /\ p + Len(v) - 1 <= Len(s)
    /\ \A i \in 1..Len(v) : s[p + i - 1] = v[i]

\* str.find from position p on (1-based); 0 when v does not occur.
IndexFrom(s, v, p) ==
    Bind({q \in p..(Len(s) - Len(v) + 1) : OccursAt(s, v, q)}, LAMBDA qs :
        IF qs = {} THEN 0 ELSE CHOOSE q \in qs : \A r \in qs : q <= r)

\* Python's `v in s`.
Contains(s, v) == IndexFrom(s, v, 1) > 0

\* str.replace(v, r, 1): the first occurrence only.
ReplaceFirst(s, v, r) ==
    Bind(IndexFrom(s, v, 1), LAMBDA i :
        IF i = 0 THEN s
        ELSE SubSeq(s, 1, i - 1) \o r \o SubSeq(s, i + Len(v), Len(s)))

\* str.replace(v, r): every occurrence, left to right, never rescanning r.
RECURSIVE ReplaceAllFrom(_, _, _, _)
ReplaceAllFrom(s, v, r, p) ==
    Bind(IndexFrom(s, v, p), LAMBDA i :
        IF Len(v) = 0 \/ i = 0 THEN SubSeq(s, p, Len(s))
        ELSE SubSeq(s, p, i - 1) \o r \o ReplaceAllFrom(s, v, r, i + Len(v)))

ReplaceAll(s, v, r) == ReplaceAllFrom(s, v, r, 1)

DigitChar(d) == <<"0", "1", "2", "3", "4", "5", "6", "7", "8", "9">>[d + 1]

\* str(n) for n >= 0, as in the f-strings that build the keys.
RECURSIVE Dec(_)
Dec(n) == IF n < 10 THEN <<DigitChar(n)>>
          ELSE Dec(n \div 10) \o <<DigitChar(n % 10)>>

\* The number of digits s holds from position p on.
RECURSIVE DigitRun(_, _)
DigitRun(s, p) == IF At(s, p) \in Digits THEN 1 + DigitRun(s, p + 1) ELSE 0

---------------------------------------------------------------------------
(* self.patterns: what each compiled pattern matches at position p of s,   *)
(* as the length of the match (0: no match at p).                          *)

UnitPrefix == {"wan", "yi", "qian", "bai"}

UnitChars == {"%", "wan", "yi", "qian", "bai", "ge", "xiang", "tiao", "ren",
              "ci"}

\* (?:\.\d+)? at q: the characters consumed.
FracLen(s, q) ==
    IF At(s, q) = "."
    THEN Bind(DigitRun(s, q + 1), LAMBDA fd : IF fd > 0 THEN 1 + fd ELSE 0)
    ELSE 0

\* (?:[wan yi qian bai]?yuan|%|wan|yi|qian|bai|ge|xiang|tiao|ren|ci)? at r:
\* the characters consumed, the alternatives tried in this order.
UnitLen(s, r) ==
    IF At(s, r) \in UnitPrefix /\ At(s, r + 1) = "yuan" THEN 2
    ELSE IF At(s, r) = "yuan" THEN 1
    ELSE IF At(s, r) \in UnitChars THEN 1
    ELSE 0

\* \d+(?:\.\d+)?(?:[wan yi qian bai]?yuan|%|wan|yi|qian|bai|ge|xiang|tiao|ren|ci)?
MatchNUMBER(s, p) ==
    Bind(DigitRun(s, p), LAMBDA d :
        IF d = 0 THEN 0
        ELSE Bind(FracLen(s, p + d), LAMBDA frac :
                 d + frac + UnitLen(s, p + d + frac)))

\* \d{1,2} followed by the character lit: the characters consumed, or 0.
D12Lit(s, q, lit) ==
    IF At(s, q) \in Digits /\ At(s, q + 1) \in Digits /\ At(s, q + 2) = lit
    THEN 3
    ELSE IF At(s, q) \in Digits /\ At(s, q + 1) = lit THEN 2
    ELSE 0

\* \d{4} followed by nian: 5, or 0.
D4Nian(s, p) ==
    IF (\A i \in 0..3 : At(s, p + i) \in Digits) /\ At(s, p + 4) = "nian"
    THEN 5 ELSE 0

\* \d{1,2}yue\d{1,2}ri at p: the characters consumed, or 0.
MonthDay(s, p) ==
    Bind(D12Lit(s, p, "yue"), LAMBDA m :
        IF m = 0 THEN 0
        ELSE Bind(D12Lit(s, p + m, "ri"), LAMBDA d :
                 IF d = 0 THEN 0 ELSE m + d))

\* \d{4}nian\d{1,2}yue\d{1,2}ri | \d{1,2}yue\d{1,2}ri | \d{4}nian\d{1,2}yue
\* | \d{4}nian, the alternatives tried in this order.
MatchDATE(s, p) ==
    Bind(D4Nian(s, p), LAMBDA y :
    Bind(IF y > 0 THEN D12Lit(s, p + y, "yue") ELSE 0, LAMBDA ym :
    Bind(IF ym > 0 THEN D12Lit(s, p + y + ym, "ri") ELSE 0, LAMBDA ymd :
        IF ymd > 0 THEN y + ym + ymd
        ELSE Bind(MonthDay(s, p), LAMBDA md :
                 IF md > 0 THEN md ELSE y + ym))))

OrgNameChars == CJK \cup UpperLetters \cup LowerLetters \cup Digits

\* (?:yan cao(?:zhuan mai)?ju|yan cao gong si|yan cao zong gong si) at q.
OrgSuffix(s, q) ==
    IF OccursAt(s, <<"yan", "cao", "zhuan", "mai", "ju">>, q) THEN 5
    ELSE IF OccursAt(s, <<"yan", "cao", "ju">>, q) THEN 3
    ELSE IF OccursAt(s, <<"yan", "cao", "gong", "si">>, q) THEN 4
    ELSE IF OccursAt(s, <<"yan", "cao", "zong", "gong", "si">>, q) THEN 5
    ELSE 0

\* The number of name characters s holds from position p on, at most 20.
RECURSIVE NameRun(_, _, _)
NameRun(s, p, n) ==
    IF n < 20 /\ At(s, p + n) \in OrgNameChars THEN NameRun(s, p, n + 1)
    ELSE n

\* The default pattern of _build_org_pattern:
\* [CJK A-Za-z0-9]{2,20} then the suffix; the name is greedy, so
\* the longest name that a suffix follows is the one matched.
MatchORG(s, p) ==
    Bind({n \in 2..NameRun(s, p, 0) : OrgSuffix(s, p + n) > 0}, LAMBDA good :
        IF good = {} THEN 0
        ELSE Bind(CHOOSE k \in good : \A j \in good : j <= k, LAMBDA n :
                 n + OrgSuffix(s, p + n)))

PlaceholderChars == UpperLetters \cup Digits \cup {"_"}

RECURSIVE KeyRun(_, _)
KeyRun(s, p) ==
    IF At(s, p) \in PlaceholderChars THEN 1 + KeyRun(s, p + 1) ELSE 0

\* \{\{([A-Z_0-9]+)\}\} of detect_placeholder_leak.
MatchLEAK(s, p) ==
    Bind(KeyRun(s, p + 2), LAMBDA n :
        IF /\ At(s, p) = "{" /\ At(s, p + 1) = "{" /\ n > 0
           /\ At(s, p + 2 + n) = "}" /\ At(s, p + 3 + n) = "}"
        THEN n + 4 ELSE 0)

MatchAt(kind, s, p) ==
    CASE kind = "NUMBER" -> MatchNUMBER(s, p)
      [] kind = "DATE"   -> MatchDATE(s, p)
      [] kind = "ORG"    -> MatchORG(s, p)
      [] kind = "LEAK"   -> MatchLEAK(s, p)

\* pattern.finditer(s): the non-overlapping matches, leftmost first, each as
\* <<start, length>>.
RECURSIVE FindIterFrom(_, _, _)
FindIterFrom(kind, s, p) ==
    IF p > Len(s) THEN <<>>
    ELSE Bind(MatchAt(kind, s, p), LAMBDA n :
             IF n > 0 THEN <<<<p, n>>>> \o FindIterFrom(kind, s, p + n)
             ELSE FindIterFrom(kind, s, p + 1))

FindIter(kind, s) == FindIterFrom(kind, s, 1)

\* match.group() of every match.
Groups(kind, s) ==
    Bind(FindIter(kind, s), LAMBDA spans :
        [i \in 1..Len(spans) |-> Slice(s, spans[i][1], spans[i][2])])

Range(f) == {f[i] : i \in DOMAIN f}

---------------------------------------------------------------------------
(* ConstraintDecoder *)

TypeChars(type) ==
    CASE type = "DATE" -> <<"D", "A", "T", "E">>
      [] type = "NUM"  -> <<"N", "U", "M">>
      [] type = "ORG"  -> <<"O", "R", "G">>

\* f"{type}_{n}"
Key(type, n) == TypeChars(type) \o <<"_">> \o Dec(n)

\* len([e for e in entities if e[0] == type])
CountType(ents, type) == Cardinality({i \in DOMAIN ents : ents[i].type = type})

Entity(type, value, ents) ==
    [type |-> type, value |-> value, key |-> Key(type, CountType(ents, type) + 1)]

\* One extraction loop: every value of vals that is not excluded becomes an
\* entity; with grow, an added value is excluded from then on
\* (extracted_orgs.add(value)).
RECURSIVE AddValues(_, _, _, _, _)
AddValues(ents, vals, type, excluded, grow) ==
    IF vals = <<>> THEN ents
    ELSE LET v == Head(vals) IN
         IF v \in excluded
         THEN AddValues(ents, Tail(vals), type, excluded, grow)
         ELSE AddValues(Append(ents, Entity(type, v, ents)), Tail(vals), type,
                        IF grow THEN excluded \cup {v} ELSE excluded, grow)

ValuesOf(ents, type) == {ents[i].value : i \in {j \in DOMAIN ents : ents[j].type = type}}

\* Step 1 of extract_entities: every DATE match is an entity.
ExtractDates(s) == AddValues(<<>>, Groups("DATE", s), "DATE", {}, FALSE)

\* Step 2: every NUMBER match whose value is not the value of a date.
ExtractNumbers(s, ents) ==
    AddValues(ents, Groups("NUMBER", s), "NUM", ValuesOf(ents, "DATE"), FALSE)

\* Step 3: the whitelisted names the text holds, in the iteration order of
\* the set self.whitelist_orgs.
ExtractWhitelistOrgs(s, ents, order) ==
    AddValues(ents, SelectSeq(order, LAMBDA org : Contains(s, org)), "ORG", {}, FALSE)

\* Step 4: every ORG match whose value is not an ORG entity yet.
ExtractPatternOrgs(s, ents) ==
    AddValues(ents, Groups("ORG", s), "ORG", ValuesOf(ents, "ORG"), TRUE)

extract_entities(s, order) ==
    ExtractPatternOrgs(s,
        ExtractWhitelistOrgs(s, ExtractNumbers(s, ExtractDates(s)), order))

\* sorted(entities, key=lambda e: len(e[1]), reverse=True): stable, so
\* entities of one length keep their order.
RECURSIVE SortByLenDesc(_)
SortByLenDesc(ents) ==
    IF ents = <<>> THEN <<>>
    ELSE Bind(SortByLenDesc(SubSeq(ents, 1, Len(ents) - 1)), LAMBDA rest :
         Bind(Cardinality({i \in DOMAIN rest :
                Len(rest[i].value) >= Len(ents[Len(ents)].value)}), LAMBDA k :
             SubSeq(rest, 1, k) \o <<ents[Len(ents)]>>
                 \o SubSeq(rest, k + 1, Len(rest))))

\* f"{{{{{key}}}}}"
Placeholder(key) == <<"{", "{">> \o key \o <<"}", "}">>

\* mapping[key] = value on an insertion-ordered dict.
DictSet(m, key, value) ==
    IF \E i \in DOMAIN m : m[i].key = key
    THEN [i \in DOMAIN m |-> IF m[i].key = key
                             THEN [key |-> key, value |-> value] ELSE m[i]]
    ELSE Append(m, [key |-> key, value |-> value])

\* The loop of to_placeholders over the sorted entities.
RECURSIVE Substitute(_, _, _)
Substitute(result, m, ents) ==
    IF ents = <<>> THEN [text |-> result, mapping |-> m]
    ELSE LET e == Head(ents) IN
         Substitute(ReplaceFirst(result, e.value, Placeholder(e.key)),
                    DictSet(m, e.key, e.value), Tail(ents))

to_placeholders(s, ents) == Substitute(s, <<>>, SortByLenDesc(ents))

detect_placeholder_leak(s) ==
    Bind(FindIter("LEAK", s), LAMBDA spans :
        [has_leak |-> Len(spans) > 0,
         leaked_placeholders |->
            [i \in 1..Len(spans) |-> Slice(s, spans[i][1] + 2, spans[i][2] - 4)]])

\* The loop of restore over mapping.items().
RECURSIVE RestoreLoop(_, _)
RestoreLoop(result, m) ==
    IF m = <<>> THEN result
    ELSE RestoreLoop(ReplaceAll(result, Placeholder(Head(m).key), Head(m).value),
                     Tail(m))

restore(s, m) == RestoreLoop(s, m)

\* A configured allow-pattern is a sequence of atoms: a character, or "\\d"
\* for a digit.  pattern.match(s): the pattern matches a prefix of s.
PatternMatch(pat, s) ==
    /\ Len(pat) <= Len(s)
    /\ \A i \in 1..Len(pat) :
          IF pat[i] = "\\d" THEN s[i] \in Digits ELSE s[i] = pat[i]

\* The numbers of the original, each with its comma-free form.
OriginalNumbers(original) ==
    Bind(Range(Groups("NUMBER", original)), LAMBDA nums :
        nums \cup {ReplaceAll(n, <<",">>, <<>>) : n \in nums})

\* check_new_numbers without its allow-patterns: every number the original
\* lacks is new.
check_new_numbers_no_allow(original, rewritten, normalize_whitelist) ==
    Bind(Range(Groups("NUMBER", rewritten)) \ OriginalNumbers(original),
         LAMBDA new_numbers :
            [is_valid |-> new_numbers = {}, new_numbers |-> new_numbers])

\* check_new_numbers; new_numbers is built by iterating a set, so it holds
\* each number once, in no fixed order: it is modelled as a set.
check_new_numbers(original, rewritten, normalize_whitelist) ==
    Bind(OriginalNumbers(original), LAMBDA original_numbers :
    Bind(Range(Groups("NUMBER", rewritten)), LAMBDA rewritten_numbers :
    Bind({num \in rewritten_numbers :
            /\ num \notin original_numbers
            /\ ~ \E i \in DOMAIN normalize_whitelist :
                    PatternMatch(normalize_whitelist[i], num)},
         LAMBDA new_numbers :
            [is_valid |-> new_numbers = {}, new_numbers |-> new_numbers])))

StartsWith(s, prefix) == OccursAt(s, prefix, 1)

\* [v for k, v in mapping.items() if k.startswith(prefix)]
Locked(m, prefix) ==
    Bind(SelectSeq(m, LAMBDA kv : StartsWith(kv.key, prefix)), LAMBDA sel :
        [i \in DOMAIN sel |-> sel[i].value])

\* The values of the mapping that the rewritten text does not hold.
Missing(rewritten, m) ==
    Bind(SelectSeq(m, LAMBDA kv : ~Contains(rewritten, kv.value)), LAMBDA sel :
        [i \in DOMAIN sel |-> sel[i].value])

\* The audit_info dict of verify_entities.
AuditInfo(m, missing, nums, leak_info) ==
    [entities_locked |->
        [dates   |-> Locked(m, <<"D", "A", "T", "E">>),
         numbers |-> Locked(m, <<"N", "U", "M">>),
         orgs    |-> Locked(m, <<"O", "R", "G">>)],
     missing_entities |-> missing,
     new_numbers_detected |-> nums.new_numbers,
     placeholder_leak |-> leak_info,
     placeholder_leak_fixed |-> leak_info.has_leak]

\* verify_entities with the leak check left out of is_valid.
verify_entities_no_leak(original, rewritten, m, normalize_whitelist) ==
    Bind(Missing(rewritten, m), LAMBDA missing :
    Bind(check_new_numbers(original, rewritten, normalize_whitelist), LAMBDA nums :
    Bind(detect_placeholder_leak(rewritten), LAMBDA leak_info :
        [is_valid |-> Len(missing) = 0 /\ nums.is_valid,
         missing |-> missing,
         audit_info |-> AuditInfo(m, missing, nums, leak_info)])))

verify_entities(original, rewritten, m, normalize_whitelist) ==
    Bind(Missing(rewritten, m), LAMBDA missing :
    Bind(check_new_numbers(original, rewritten, normalize_whitelist), LAMBDA nums :
    Bind(detect_placeholder_leak(rewritten), LAMBDA leak_info :
        [is_valid |-> /\ Len(missing) = 0
                      /\ nums.is_valid
                      /\ ~leak_info.has_leak,
         missing |-> missing,
         audit_info |-> AuditInfo(m, missing, nums, leak_info)])))

---------------------------------------------------------------------------
(* Retrieval: values shared by the two retrievers.                         *)
(* A score is an integer number of millionths: Python's floats, kept to    *)
(* six decimal places.                                                     *)

\* Python's None; no string of the model equals it.
None == "None"

\* Truthiness of an optional string: neither None nor ''.
Truthy(x) == x # None /\ x # ""

Micro == 1000000

\* math.log(n) in millionths, n = 1, 2, ...
LnTable ==
    <<0, 693147, 1098612, 1386294, 1609438, 1791759, 1945910, 2079442,
      2197225, 2302585, 2397895, 2484907, 2564949, 2639057, 2708050,
      2772589, 2833213, 2890372, 2944439, 2995732, 3044522, 3091042,
      3135494, 3178054>>

\* math.log(num / den) in millionths.
Ln(num, den) == LnTable[num] - LnTable[den]

RECURSIVE Sum(_)
Sum(q) == IF q = <<>> THEN 0 ELSE q[1] + Sum(Tail(q))

\* Counter(tokens)[token]
Count(tokens, token) == Cardinality({i \in DOMAIN tokens : tokens[i] = token})

\* f"{title} {lead} {body}"
FullText(a) == a.title \o <<" ">> \o a.lead \o <<" ">> \o a.body

---------------------------------------------------------------------------
(* IntelligentRetriever: tokens, index, scores *)

\* \w : what re.sub(r'[^\w\s]', ' ', text) keeps of the visible characters.
WordChars == Digits \cup UpperLetters \cup LowerLetters \cup CJK \cup {"_"}

common_words ==
    << <<"yan", "cao">>, <<"juan", "yan">>, <<"yan", "ye">>,
       <<"zhuan", "mai">>, <<"ying", "xiao">>, <<"xiao", "shou">>,
       <<"jian", "guan">>, <<"sheng1", "chan">>, <<"hui", "yi4">>,
       <<"zhao", "kai">>, <<"ju3", "ban">>, <<"huo", "dong">>,
       <<"gong1", "zuo">>, <<"fa", "zhan">>, <<"jian4", "she">>,
       <<"guan", "li">>, <<"tong", "bi">>, <<"zeng", "zhang">>,
       <<"xia", "jiang">>, <<"ti", "sheng2">>, <<"you", "hua">>,
       <<"tui", "jin">>, <<"luo", "shi2">>, <<"bu", "shu">> >>

\* _tokenize: every word character is a token, and then every common word
\* that occurs in the joined word characters, once.
IR_tokenize(s) ==
    Bind(SelectSeq(s, LAMBDA c : c \in WordChars), LAMBDA clean :
        [i \in 1..Len(clean) |-> <<clean[i]>>]
            \o SelectSeq(common_words, LAMBDA w : Contains(clean, w)))

\* math.log((doc_count - doc_freq + 0.5) / (doc_freq + 0.5))
IR_idf(doc_count, doc_freq) ==
    Ln(2 * doc_count - 2 * doc_freq + 1, 2 * doc_freq + 1)

\* What __init__ leaves without articles.
EmptyIndex == [vocab |-> {}, idf_scores |-> <<>>, bm25_index |-> <<>>]

\* _build_bm25_index; bm25_index[i] is the entry of document i - 1.
IR_build_bm25_index(arts) ==
    IF arts = <<>> THEN EmptyIndex
    ELSE Bind([i \in DOMAIN arts |-> IR_tokenize(FullText(arts[i]))],
         LAMBDA doc_tokens :
         Bind(UNION {{doc_tokens[i][j] : j \in DOMAIN doc_tokens[i]} :
                     i \in DOMAIN doc_tokens}, LAMBDA vocab :
            [vocab |-> vocab,
             idf_scores |->
                [token \in vocab |->
                    IR_idf(Len(arts),
                           Cardinality({i \in DOMAIN doc_tokens :
                              \E j \in DOMAIN doc_tokens[i] :
                                  doc_tokens[i][j] = token}))],
             bm25_index |->
                [i \in DOMAIN doc_tokens |->
                    [tokens |-> [token \in vocab |->
                                    Count(doc_tokens[i], token)],
                     length |-> Len(doc_tokens[i])]]]))

\* One query token's share of the score, k1 = 1.2 and b = 0.75:
\*   idf * tf * 2.2 / (tf + 0.3 + 0.9 * doc_length / avg_doc_length)
\* with avg_doc_length = total / count.
IR_term(idf, tf, doc_length, total, count) ==
    (idf * 22 * tf * total)
        \div (10 * tf * total + 3 * total + 9 * doc_length * count)

\* _calculate_bm25_score(query_tokens, doc_index), doc_index = i - 1.
IR_calculate_bm25_score(index, query_tokens, i) ==
    IF i \notin DOMAIN index.bm25_index THEN 0
    ELSE Bind(index.bm25_index[i], LAMBDA doc_info :
         Bind(Sum([j \in DOMAIN index.bm25_index |->
                      index.bm25_index[j].length]), LAMBDA total :
            Sum([q \in DOMAIN query_tokens |->
                    IF query_tokens[q] \notin index.vocab THEN 0
                    ELSE IR_term(index.idf_scores[query_tokens[q]],
                                 doc_info.tokens[query_tokens[q]],
                                 doc_info.length, total,
                                 Len(index.bm25_index))])))

\* str.lower() of one character.
LowerChar(c) ==
    IF c \in UpperLetters
    THEN Bind(<<"A", "B", "C", "D", "E", "F", "G", "H", "I", "J", "K", "L",
                "M", "N", "O", "P", "Q", "R", "S", "T", "U", "V", "W", "X",
                "Y", "Z">>, LAMBDA upper :
            <<"a", "b", "c", "d", "e", "f", "g", "h", "i", "j", "k", "l",
              "m", "n", "o", "p", "q", "r", "s", "t", "u", "v", "w", "x",
              "y", "z">>[CHOOSE i \in DOMAIN upper : upper[i] = c])
    ELSE c

Lower(s) == [i \in DOMAIN s |-> LowerChar(s[i])]

concept_groups ==
    << << <<"yan", "cao">>, <<"juan", "yan">>, <<"yan", "ye">>,
          <<"zhuan", "mai">>, <<"ying", "xiao">>, <<"xiao", "shou">>,
          <<"jian", "guan">> >>,
       << <<"hui", "yi4">>, <<"huo", "dong">>, <<"gong1", "zuo">>,
          <<"fa", "zhan">>, <<"jian4", "she">>, <<"guan", "li">>,
          <<"bu", "shu">> >>,
       << <<"zeng", "zhang">>, <<"xia", "jiang">>, <<"tong", "bi">>,
          <<"huan", "bi">>, <<"shu4", "ju4">>, <<"tong3", "ji">>,
          <<"fen", "xi">> >> >>

column_keywords ==
    << [column |-> "news_general",
        keywords |-> << <<"hui", "yi4">>, <<"zhao", "kai">>,
                        <<"ju3", "ban">>, <<"huo", "dong">> >>],
       [column |-> "economic_data",
        keywords |-> << <<"zeng", "zhang">>, <<"xiao", "shou">>,
                        <<"shou1", "ru">>, <<"shu4", "ju4">>, <<"%">> >>],
       [column |-> "policy_interpretation",
        keywords |-> << <<"zheng", "ce">>, <<"tong1", "zhi">>,
                        <<"gong", "gao">>, <<"gui", "ding">> >>],
       [column |-> "case_observation",
        keywords |-> << <<"dian", "xing">>, <<"xian", "jin">>,
                        <<"an", "li4">>, <<"jing", "yan4">> >>] >>

\* sum(1 for concept in concepts if concept in s)
Matches(concepts, s) ==
    Cardinality({i \in DOMAIN concepts : Contains(s, concepts[i])})

Min(a, b) == IF a <= b THEN a ELSE b

\* One concept group's share: min(query_match, article_match) / len(concepts)
GroupShare(concepts, query_lower, article_lower) ==
    Bind(Min(Matches(concepts, query_lower),
             Matches(concepts, article_lower)), LAMBDA m :
        (m * Micro) \div Len(concepts))

\* _calculate_semantic_similarity(query, article)
calculate_semantic_similarity(query, a) ==
    Bind(Lower(query), LAMBDA query_lower :
    Bind(Lower(FullText(a)), LAMBDA article_lower :
        Min(Micro,
            Sum([g \in DOMAIN concept_groups |->
                    GroupShare(concept_groups[g], query_lower,
                               article_lower)])
            + Sum([c \in DOMAIN column_keywords |->
                    IF /\ \E w \in DOMAIN column_keywords[c].keywords :
                            Contains(query_lower,
                                     column_keywords[c].keywords[w])
                       /\ column_keywords[c].column
                              \in a.features.column_indicators
                    THEN 300000 ELSE 0]))))

\* set(title)
CharSet(s) == {s[i] : i \in DOMAIN s}

\* _title_similarity(title1, title2)
title_similarity(title1, title2) ==
    IF title1 = <<>> \/ title2 = <<>> THEN 0
    ELSE (Cardinality(CharSet(title1) \cap CharSet(title2)) * Micro)
             \div Cardinality(CharSet(title1) \cup CharSet(title2))

\* A diversity loop that takes every title.
IsDuplicate_never(title, used_titles) == FALSE

\* any(self._title_similarity(title, used_title) > 0.7 for used_title in ...)
IsDuplicate(title, used_titles) ==
    \E used_title \in used_titles :
        title_similarity(title, used_title) > 700000

\* list.sort(key=..., reverse=True) as the order of the positions: stable,
\* so equal keys keep their order.
RECURSIVE StableOrderDesc(_)
StableOrderDesc(keys) ==
    IF keys = <<>> THEN <<>>
    ELSE Bind(StableOrderDesc(SubSeq(keys, 1, Len(keys) - 1)), LAMBDA rest :
         Bind(Cardinality({j \in DOMAIN rest :
                keys[rest[j]] >= keys[Len(keys)]}), LAMBDA n :
            SubSeq(rest, 1, n) \o <<Len(keys)>>
                \o SubSeq(rest, n + 1, Len(rest))))

\* round(x, 3) of a score in millionths, in thousandths; a tie goes to the
\* even neighbour.
Round3(x) ==
    IF x % 1000 > 500 \/ (x % 1000 = 500 /\ (x \div 1000) % 2 = 1)
    THEN x \div 1000 + 1
    ELSE x \div 1000

\* The candidate of one article that passed the column filter.
Candidate(index, arts, i, query_text, query_tokens) ==
    Bind(IR_calculate_bm25_score(index, query_tokens, i), LAMBDA bm25_score :
    Bind(calculate_semantic_similarity(query_text, arts[i]),
         LAMBDA semantic_score :
        [article |-> arts[i],
         bm25_score |-> bm25_score,
         semantic_score |-> semantic_score,
         combined_score |-> (4 * bm25_score + 6 * semantic_score) \div 10]))

\* The candidates in the order of the articles, column filter applied.
Candidates(index, arts, query_text, target_column) ==
    Bind(IR_tokenize(query_text), LAMBDA query_tokens :
    Bind(SelectSeq([i \in DOMAIN arts |-> i], LAMBDA i :
            Truthy(target_column) =>
                target_column \in arts[i].features.column_indicators),
         LAMBDA kept :
        [j \in DOMAIN kept |->
            Candidate(index, arts, kept[j], query_text, query_tokens)]))

\* The diversity loop over the sorted candidates.
RECURSIVE Diversify(_, _, _, _)
Diversify(cands, k, diverse_results, used_titles) ==
    IF cands = <<>> \/ Len(diverse_results) >= k THEN diverse_results
    ELSE IF IsDuplicate(Head(cands).article.title, used_titles)
    THEN Diversify(Tail(cands), k, diverse_results, used_titles)
    ELSE Diversify(Tail(cands), k,
            Append(diverse_results,
                [article_id |-> Head(cands).article.id,
                 title |-> Head(cands).article.title,
                 lead |-> Head(cands).article.lead,
                 body |-> Head(cands).article.body,
                 similarity_score |-> Round3(Head(cands).combined_score),
                 full_article |-> Head(cands).article]),
            used_titles \cup {Head(cands).article.title})

\* candidates.sort(key=lambda x: x['combined_score'], reverse=True)
SortedCandidates(index, arts, query_text, target_column) ==
    Bind(Candidates(index, arts, query_text, target_column), LAMBDA cands :
    Bind(StableOrderDesc([j \in DOMAIN cands |-> cands[j].combined_score]),
         LAMBDA order :
        [j \in DOMAIN order |-> cands[order[j]]]))

\* retrieve_similar_samples(query_text, target_column, top_k)
retrieve_similar_samples(index, arts, query_text, target_column, k) ==
    IF arts = <<>> THEN <<>>
    ELSE Diversify(SortedCandidates(index, arts, query_text, target_column),
                   k, <<>>, {})

---------------------------------------------------------------------------
(* XHFSampleRetriever: tokens, index, scores, retrieve *)

\* The number of characters of S that s holds from position p on.
RECURSIVE CharRun(_, _, _)
CharRun(s, p, S) == IF At(s, p) \in S THEN 1 + CharRun(s, p + 1, S) ELSE 0

\* [0-9]+\.?[0-9]* at p: the length of the match.
XHF_number(s, p) ==
    Bind(DigitRun(s, p), LAMBDA d :
        IF d = 0 THEN 0
        ELSE Bind(IF At(s, p + d) = "." THEN d + 1 ELSE d, LAMBDA e :
                 e + DigitRun(s, p + e)))

\* [U+4E00-U+9FA5]+|[0-9]+\.?[0-9]*|[a-zA-Z]+ at p: the length of the match.
XHF_token(s, p) ==
    IF At(s, p) \in CJK THEN CharRun(s, p, CJK)
    ELSE IF At(s, p) \in Digits THEN XHF_number(s, p)
    ELSE CharRun(s, p, UpperLetters \cup LowerLetters)

\* re.findall from position p on, keeping the tokens of two characters or
\* more.
RECURSIVE XHF_tokenize_from(_, _)
XHF_tokenize_from(s, p) ==
    IF p > Len(s) THEN <<>>
    ELSE Bind(XHF_token(s, p), LAMBDA n :
        IF n = 0 THEN XHF_tokenize_from(s, p + 1)
        ELSE IF n >= 2
        THEN <<Slice(s, p, n)>> \o XHF_tokenize_from(s, p + n)
        ELSE XHF_tokenize_from(s, p + n))

\* _tokenize
XHF_tokenize(s) == XHF_tokenize_from(s, 1)

\* math.log((doc_count - df + 0.5) / (df + 0.5) + 1)
XHF_idf(doc_count, df) == Ln(2 * doc_count + 2, 2 * df + 1)

\* _build_bm25_index; avg_doc_length is kept as the fraction num / den.
XHF_build_bm25_index(smps) ==
    Bind([i \in DOMAIN smps |-> XHF_tokenize(FullText(smps[i]))],
         LAMBDA corpus_tokens :
        [doc_lengths |-> [i \in DOMAIN corpus_tokens |->
                             Len(corpus_tokens[i])],
         avg_doc_length |->
            IF corpus_tokens = <<>> THEN [num |-> 1, den |-> 1]
            ELSE [num |-> Sum([i \in DOMAIN corpus_tokens |->
                                  Len(corpus_tokens[i])]),
                  den |-> Len(corpus_tokens)],
         idf |-> [token \in UNION {CharSet(corpus_tokens[i]) :
                                      i \in DOMAIN corpus_tokens} |->
                    XHF_idf(Len(corpus_tokens),
                            Cardinality({i \in DOMAIN corpus_tokens :
                                token \in CharSet(corpus_tokens[i])}))]])

\* One query token's share of the score, k1 = 1.5 and b = 0.75:
\*   idf * tf * 2.5 / (tf + 0.375 + 1.125 * doc_len / avg_doc_length)
XHF_term(idf, tf, doc_len, avg) ==
    (idf * 20 * tf * avg.num)
        \div (8 * tf * avg.num + 3 * avg.num + 9 * doc_len * avg.den)

\* _bm25_score(query_tokens, doc_idx), doc_idx = i - 1.
XHF_bm25_score(index, smps, query_tokens, i) ==
    Bind(XHF_tokenize(FullText(smps[i])), LAMBDA doc_tokens :
        IF Len(doc_tokens) = 0 THEN 0
        ELSE Sum([q \in DOMAIN query_tokens |->
                IF query_tokens[q] \notin DOMAIN index.idf THEN 0
                ELSE IF Count(doc_tokens, query_tokens[q]) = 0 THEN 0
                ELSE XHF_term(index.idf[query_tokens[q]],
                              Count(doc_tokens, query_tokens[q]),
                              Len(doc_tokens), index.avg_doc_length)]))

\* f'xhf_{idx:03d}'
XhfId(idx) ==
    <<"xhf_000", "xhf_001", "xhf_002", "xhf_003", "xhf_004", "xhf_005",
      "xhf_006", "xhf_007", "xhf_008", "xhf_009">>[idx + 1]

\* The entry of sample i (doc_idx i - 1) in the result list.
XhfResult(smps, i, score) ==
    [article |-> smps[i],
     score |-> score,
     id |-> IF smps[i].id = None THEN XhfId(i - 1) ELSE smps[i].id]

\* The first loop of retrieve over the sorted scores: the samples of the
\* type asked for, until top_k are taken.
RECURSIVE TakeFiltered(_, _, _, _, _)
TakeFiltered(smps, scores, article_type, k, res) ==
    IF scores = <<>> THEN res
    ELSE IF Truthy(article_type) /\ smps[Head(scores).idx].type # article_type
    THEN TakeFiltered(smps, Tail(scores), article_type, k, res)
    ELSE IF Len(res) + 1 >= k
    THEN Append(res, XhfResult(smps, Head(scores).idx, Head(scores).score))
    ELSE TakeFiltered(smps, Tail(scores), article_type, k,
            Append(res, XhfResult(smps, Head(scores).idx,
                                  Head(scores).score)))

\* The second loop of retrieve: fill up from the sorted scores with the
\* samples whose 'id' no result carries.
RECURSIVE Backfill(_, _, _, _)
Backfill(smps, scores, k, res) ==
    IF scores = <<>> \/ Len(res) >= k THEN res
    ELSE IF \E r \in DOMAIN res : res[r].id = smps[Head(scores).idx].id
    THEN Backfill(smps, Tail(scores), k, res)
    ELSE Backfill(smps, Tail(scores), k,
            Append(res, XhfResult(smps, Head(scores).idx,
                                  Head(scores).score)))

\* retrieve(query_text, article_type) of a retriever built with top_k = k
XHF_retrieve(index, smps, k, query_text, article_type) ==
    Bind(XHF_tokenize(query_text), LAMBDA query_tokens :
    Bind([i \in DOMAIN smps |->
            XHF_bm25_score(index, smps, query_tokens, i)], LAMBDA sc :
    Bind(StableOrderDesc(sc), LAMBDA order :
    Bind([j \in DOMAIN order |-> [idx |-> order[j], score |-> sc[order[j]]]],
         LAMBDA scores :
    Bind(TakeFiltered(smps, scores, article_type, k, <<>>), LAMBDA res :
        IF Len(res) < k THEN Backfill(smps, scores, k, res) ELSE res)))))

---------------------------------------------------------------------------
(* BM25KnowledgeRetriever: tokens, search, the lru_cache of search *)

KR_common_words ==
    << <<"guo", "jia">>, <<"yan", "cao">>, <<"zhuan", "mai">>,
       <<"guan", "li">>, <<"gong", "si">>, <<"juan", "yan">>,
       <<"yan", "ye">>, <<"zhi4", "du">>, <<"hang", "ye4">>,
       <<"shi", "chang">>, <<"sheng1", "chan">>, <<"jing", "ying">>,
       <<"xu", "ke", "zheng4">>, <<"jian", "du2">>, <<"jian3", "cha">>,
       <<"shui", "shou1">>, <<"cai", "zheng">>, <<"fu", "wu">>,
       <<"gui", "fan">> >>

\* _tokenize: the common words that occur in the text, then every CJK
\* character of it.
KR_tokenize(s) ==
    SelectSeq(KR_common_words, LAMBDA w : Contains(s, w))
        \o Bind(SelectSeq(s, LAMBDA c : c \in CJK), LAMBDA chars :
               [i \in 1..Len(chars) |-> <<chars[i]>>])

\* round(num / den, 2) in hundredths; a tie goes to the even neighbour.
Round2(num, den) ==
    Bind((100 * num) \div den, LAMBDA q :
    Bind((100 * num) % den, LAMBDA r :
        IF 2 * r > den \/ (2 * r = den /\ q % 2 = 1) THEN q + 1 ELSE q))

\* The loop over tokenized_corpus, scores.sort(reverse=True) and
\* scores[:topk]: the documents that share a token with the query, as
\* (shared tokens, idx), greatest pair first.
KR_top(tokenized, query_tokens, topk) ==
    Bind(SelectSeq([i \in DOMAIN tokenized |->
                       [shared |-> Cardinality(query_tokens
                                      \cap CharSet(tokenized[i])),
                        idx |-> i - 1]],
                   LAMBDA e : e.shared > 0), LAMBDA scores :
    Bind(StableOrderDesc([j \in DOMAIN scores |->
            scores[j].shared * (Len(tokenized) + 1) + scores[j].idx]),
         LAMBDA order :
        [j \in 1..Min(topk, Len(order)) |-> scores[order[j]]]))

\* f'local:tobacco_knowledge.txt#L{idx+1}'
KR_source(idx) == <<"local:tobacco_knowledge.txt#L">> \o Dec(idx + 1)

\* The result entries of the documents kept.  corpus grows before
\* tokenized_corpus does, so corpus[idx] exists for every idx kept.
KR_results(corpus, top, query_tokens) ==
    [j \in DOMAIN top |->
        [snippet |-> corpus[top[j].idx + 1],
         score |-> Round2(top[j].shared, Cardinality(query_tokens)),
         source |-> KR_source(top[j].idx)]]

\* The body of search(query, topk), the cache aside.
KR_search(corpus, tokenized, query, topk) ==
    Bind(CharSet(KR_tokenize(query)), LAMBDA query_tokens :
        IF query_tokens = {} THEN <<>>
        ELSE KR_results(corpus, KR_top(tokenized, query_tokens, topk),
                        query_tokens))

\* @lru_cache(maxsize=100)
lru_maxsize == 100

\* The cache is the list of its entries, the most recently used first.
\* The position of a key, 0 when it is not cached.
LruFind(cache, key) ==
    IF \E i \in DOMAIN cache : cache[i].key = key
    THEN CHOOSE i \in DOMAIN cache : cache[i].key = key
    ELSE 0

\* A hit makes the entry the most recently used.
LruTouch(cache, i) ==
    <<cache[i]>> \o SubSeq(cache, 1, i - 1) \o SubSeq(cache, i + 1, Len(cache))

\* The wrapper stores the value the call returned, unless the key was
\* cached meanwhile; a full cache loses its least recently used entry.
LruStore(cache, key, value) ==
    IF LruFind(cache, key) > 0 THEN cache
    ELSE <<[key |-> key, value |-> value]>>
             \o SubSeq(cache, 1, Min(Len(cache), lru_maxsize - 1))

\* add_knowledge without its cache_clear().
LruKeep(cache) == cache

\* self.search.cache_clear()
LruClear(cache) == <<>>

---------------------------------------------------------------------------
(* The rewrite request: extract, encode, generate, restore, verify *)

\* The most fragments an original text is made of.
MaxFrags == 3

\* The fragments the original texts are made of: "1", "2024 nian",
\* "1 yue 5 ri", "1.2 wan yuan", "8.5%", a full-width comma and
\* "mou sheng yan cao gong si".
Lexicon ==
    { <<"1">>,
      <<"2", "0", "2", "4", "nian">>,
      <<"1", "yue", "5", "ri">>,
      <<"1", ".", "2", "wan", "yuan">>,
      <<"8", ".", "5", "%">>,
      <<"fwcomma">>,
      <<"mou", "sheng", "yan", "cao", "gong", "si">> }

RECURSIVE TextsOf(_)
TextsOf(n) ==
    IF n = 0 THEN {<<>>}
    ELSE LET prev == TextsOf(n - 1) IN
         prev \cup {t \o f : t \in prev, f \in Lexicon}

Texts == TextsOf(MaxFrags)

\* _load_config returns {} when the file cannot be read: no whitelist, no
\* allow-pattern.
DefaultConfig == [whitelist_orgs |-> {}, whitelist_patterns |-> <<>>]

\* A configuration file with two whitelisted names and the allow-pattern
\* \d\d% .
SampleConfig ==
    [whitelist_orgs |-> { <<"mou", "sheng", "yan", "cao", "gong", "si">>,
                          <<"mou", "sheng">> },
     whitelist_patterns |-> << <<"\\d", "\\d", "%">> >>]

Configs == {DefaultConfig, SampleConfig}

\* The orders in which a Python set of strings may be iterated.
Orderings(S) ==
    {o \in [1..Cardinality(S) -> S] : \A i, j \in DOMAIN o : i # j => o[i] # o[j]}

\* What the generation step may add to its output: an invented figure and a
\* placeholder-shaped string.
GenFrags == { <<"2", "0", "%">>, Placeholder(Key("NUM", 1)) }

\* The outputs of the generation step for a prompt text: the text as it is,
\* the text with something added, or the text lost.
GenOutputs(s) ==
    {s} \cup {s \o f : f \in GenFrags} \cup GenFrags \cup {<<>>}

NoVerdict == [is_valid |-> FALSE, missing |-> <<>>, audit_info |-> <<>>]

NoNumbers == [is_valid |-> FALSE, new_numbers |-> {}]

\* The threads that call the knowledge retriever.
NumThreads == 2

Threads == 1..NumThreads

IdleThread ==
    [pc |-> "idle", op |-> "none", query |-> <<>>, topk |-> 0, text |-> <<>>,
     query_tokens |-> {}, top |-> <<>>, result |-> <<>>]

\* No knowledge retriever is constructed.
NoKnowledge ==
    /\ kcorpus = <<>>
    /\ ktokenized = <<>>
    /\ kcache = <<>>
    /\ kthreads = [t \in Threads |-> IdleThread]

\* What a call through the api_retry wrapper ended with: a returned value
\* (for rewrite_with_learning its "success" and "error" fields) or a raised
\* error.
NoOutcome == [kind |-> "none", success |-> FALSE, error |-> <<>>]

IdleRetry ==
    [pc |-> "idle", func |-> "none", max_attempts |-> 0, base_delay |-> 0,
     attempt |-> 0, calls |-> 0, errors |-> <<>>, slept |-> <<>>,
     outcome |-> NoOutcome]

\* No wrapped function is being called.
NoRetry == retry = IdleRetry

NoCall == [fn |-> "none", args |-> <<>>, result |-> <<>>]

\* No checking or post-processing function is being called.
NoFunction == fcall = NoCall

NoRequest == [op |-> "none", query |-> <<>>, filter |-> None, k |-> 0]

\* No retriever is constructed.
NoRetriever ==
    /\ articles = <<>>
    /\ ir_index = EmptyIndex
    /\ samples = <<>>
    /\ xhf_index = XHF_build_bm25_index(<<>>)
    /\ top_k = 0
    /\ request = NoRequest
    /\ results = <<>>
    /\ rpc = "none"

InitDecoder ==
    /\ config \in Configs
    /\ text \in Texts
    /\ entities = <<>>
    /\ ph_text = <<>>
    /\ mapping = <<>>
    /\ generated = <<>>
    /\ restored = <<>>
    /\ verdict = NoVerdict
    /\ numbers = NoNumbers
    /\ warnings = 0
    /\ dpc = "start"
    /\ NoRetriever
    /\ NoKnowledge
    /\ NoRetry
    /\ NoFunction

Extract ==
    /\ dpc = "start"
    /\ \E order \in Orderings(config.whitelist_orgs) :
          entities' = extract_entities(text, order)
    /\ dpc' = "extracted"
    /\ UNCHANGED <<config, text, ph_text, mapping, generated, restored,
                   verdict, numbers, warnings>>
    /\ UNCHANGED notDecoder

ToPlaceholders ==
    /\ dpc = "extracted"
    /\ \E r \in {to_placeholders(text, entities)} :
          /\ ph_text' = r.text
          /\ mapping' = r.mapping
    /\ dpc' = "encoded"
    /\ UNCHANGED <<config, text, entities, generated, restored, verdict,
                   numbers, warnings>>
    /\ UNCHANGED notDecoder

Generate ==
    /\ dpc = "encoded"
    /\ generated' \in GenOutputs(ph_text)
    /\ dpc' = "generated"
    /\ UNCHANGED <<config, text, entities, ph_text, mapping, restored,
                   verdict, numbers, warnings>>
    /\ UNCHANGED notDecoder

\* A restore that consumes the entries of the mapping it has replaced.
Restore_pops_mapping ==
    /\ dpc = "generated"
    /\ restored' = restore(generated, mapping)
    /\ mapping' = SelectSeq(mapping,
                     LAMBDA kv : ~Contains(generated, Placeholder(kv.key)))
    /\ warnings' = IF detect_placeholder_leak(restored').has_leak
                   THEN warnings + 1 ELSE warnings
    /\ dpc' = "restored"
    /\ UNCHANGED <<config, text, entities, ph_text, generated, verdict, numbers>>
    /\ UNCHANGED notDecoder

Restore ==
    /\ dpc = "generated"
    /\ restored' = restore(generated, mapping)
    /\ warnings' = IF detect_placeholder_leak(restored').has_leak
                   THEN warnings + 1 ELSE warnings
    /\ dpc' = "restored"
    /\ UNCHANGED <<config, text, entities, ph_text, mapping, generated,
                   verdict, numbers>>
    /\ UNCHANGED notDecoder

Verify ==
    /\ dpc = "restored"
    /\ verdict' = verify_entities(text, restored, mapping,
                                  config.whitelist_patterns)
    /\ numbers' = check_new_numbers(text, restored, config.whitelist_patterns)
    /\ dpc' = "verified"
    /\ UNCHANGED <<config, text, entities, ph_text, mapping, generated,
                   restored, warnings>>
    /\ UNCHANGED notDecoder

NextDecoder == Extract \/ ToPlaceholders \/ Generate \/ Restore \/ Verify

SpecDecoder == InitDecoder /\ [][NextDecoder]_vars

---------------------------------------------------------------------------
(* The retrievers: construction over a corpus, then retrieval requests *)

\* The most documents a corpus file holds.
MaxDocs == 3

\* The largest top_k asked for.
MaxK == 3

Article(id, title, body, type, columns) ==
    [id |-> id, title |-> title, lead |-> <<>>, body |-> body, type |-> type,
     features |-> [column_indicators |-> columns]]

\* The articles of data/samples/structured_articles.json: "yan cao hui yi4",
\* "yan cao hui", "xiao shou zeng zhang" and "yan cao xiao shou".
ArticlePool ==
    { Article("a1", <<"yan", "cao", "hui", "yi4">>, <<>>, None,
              {"news_general"}),
      Article("a2", <<"yan", "cao", "hui">>, <<>>, None, {"news_general"}),
      Article("a3", <<"xiao", "shou", "zeng", "zhang">>,
              <<"8", ".", "5", "%">>, None, {"economic_data"}),
      Article("a4", <<"yan", "cao", "xiao", "shou">>, <<>>, None,
              {"economic_data"}) }

\* The samples of the XHF corpus; the 'id' and 'type' keys are optional.
SamplePool ==
    { Article("xhf_001", <<"yan", "cao", "hui", "yi4">>,
              <<"yan", "cao", "fwcomma", "hui", "yi4">>,
              "enterprise_news", {}),
      Article(None, <<"yan", "cao", "xiao", "shou">>,
              <<"yan", "cao", "fwcomma", "xiao", "shou">>,
              "enterprise_news", {}),
      Article("xhf_003", <<"xiao", "shou", "zeng", "zhang">>,
              <<"xiao", "shou", "fwcomma", "8", ".", "5", "%">>,
              "operation_management", {}),
      Article(None, <<"P", "L", "C">>, <<>>, None, {}) }

RECURSIVE CorporaOf(_, _)
CorporaOf(pool, n) ==
    IF n = 0 THEN {<<>>}
    ELSE LET prev == CorporaOf(pool, n - 1) IN
         prev \cup {Append(c, d) : c \in prev, d \in pool}

Queries ==
    { <<"yan", "cao", "fwcomma", "hui", "yi4">>,
      <<"xiao", "shou", "zeng", "zhang", "8", ".", "5", "%">>,
      <<"yan", "cao">>,
      <<"zhao", "kai">> }

Columns == {None, "news_general", "economic_data"}

ArticleTypes == {None, "enterprise_news", "operation_management"}

\* No rewrite request is under way.
NoDecoder ==
    /\ config = DefaultConfig
    /\ text = <<>>
    /\ entities = <<>>
    /\ ph_text = <<>>
    /\ mapping = <<>>
    /\ generated = <<>>
    /\ restored = <<>>
    /\ verdict = NoVerdict
    /\ numbers = NoNumbers
    /\ warnings = 0
    /\ dpc = "none"

\* IntelligentRetriever(): the articles are loaded and the index is built.
InitIntelligent ==
    /\ articles \in CorporaOf(ArticlePool, MaxDocs)
    /\ ir_index = IR_build_bm25_index(articles)
    /\ samples = <<>>
    /\ xhf_index = XHF_build_bm25_index(<<>>)
    /\ top_k = 0
    /\ rpc = "ir_idle"

\* XHFSampleRetriever(samples_json, top_k)
InitXHF ==
    /\ samples \in CorporaOf(SamplePool, MaxDocs)
    /\ xhf_index = XHF_build_bm25_index(samples)
    /\ top_k \in 1..MaxK
    /\ articles = <<>>
    /\ ir_index = EmptyIndex
    /\ rpc = "xhf_idle"

InitRetriever ==
    /\ NoDecoder
    /\ NoKnowledge
    /\ NoRetry
    /\ NoFunction
    /\ request = NoRequest
    /\ results = <<>>
    /\ (InitIntelligent \/ InitXHF)

\* _calculate_bm25_score of every indexed document for one query.
IR_Score ==
    /\ rpc = "ir_idle"
    /\ \E query \in Queries :
          /\ request' = [op |-> "score", query |-> query, filter |-> None,
                         k |-> 0]
          /\ results' = [i \in DOMAIN articles |->
                            IR_calculate_bm25_score(ir_index,
                                IR_tokenize(query), i)]
    /\ rpc' = "ir_returned"
    /\ UNCHANGED <<articles, ir_index, samples, xhf_index, top_k>>
    /\ UNCHANGED notRetriever

IR_Retrieve ==
    /\ rpc = "ir_idle"
    /\ \E query \in Queries, target_column \in Columns, k \in 1..MaxK :
          /\ request' = [op |-> "retrieve", query |-> query,
                         filter |-> target_column, k |-> k]
          /\ results' = retrieve_similar_samples(ir_index, articles, query,
                                                 target_column, k)
    /\ rpc' = "ir_returned"
    /\ UNCHANGED <<articles, ir_index, samples, xhf_index, top_k>>
    /\ UNCHANGED notRetriever

\* _bm25_score of every sample for one query.
XHF_Score ==
    /\ rpc = "xhf_idle"
    /\ \E query \in Queries :
          /\ request' = [op |-> "score", query |-> query, filter |-> None,
                         k |-> 0]
          /\ results' = [i \in DOMAIN samples |->
                            XHF_bm25_score(xhf_index, samples,
                                XHF_tokenize(query), i)]
    /\ rpc' = "xhf_returned"
    /\ UNCHANGED <<articles, ir_index, samples, xhf_index, top_k>>
    /\ UNCHANGED notRetriever

XHF_Retrieve ==
    /\ rpc = "xhf_idle"
    /\ \E query \in Queries, article_type \in ArticleTypes :
          /\ request' = [op |-> "retrieve", query |-> query,
                         filter |-> article_type, k |-> top_k]
          /\ results' = XHF_retrieve(xhf_index, samples, top_k, query,
                                     article_type)
    /\ rpc' = "xhf_returned"
    /\ UNCHANGED <<articles, ir_index, samples, xhf_index, top_k>>
    /\ UNCHANGED notRetriever

\* The caller has taken the result; the retriever serves the next call.
Return ==
    /\ rpc \in {"ir_returned", "xhf_returned"}
    /\ rpc' = IF rpc = "ir_returned" THEN "ir_idle" ELSE "xhf_idle"
    /\ request' = NoRequest
    /\ results' = <<>>
    /\ UNCHANGED <<articles, ir_index, samples, xhf_index, top_k>>
    /\ UNCHANGED notRetriever

NextRetriever == IR_Score \/ IR_Retrieve \/ XHF_Score \/ XHF_Retrieve \/ Return

SpecRetriever == InitRetriever /\ [][NextRetriever]_vars

---------------------------------------------------------------------------
(* The knowledge retriever: search and add_knowledge calls *)

\* The largest topk a search asks for.
MaxTopK == 2

\* The lines of the knowledge file: "yan cao zhuan mai" and
\* "juan yan shi chang".
KnowledgeFiles ==
    { << <<"yan", "cao", "zhuan", "mai">> >>,
      << <<"yan", "cao", "zhuan", "mai">>,
         <<"juan", "yan", "shi", "chang">> >> }

\* The entries add_knowledge is called with: a new entry, an entry of the
\* file, and the empty string.
KnowledgeTexts ==
    { <<"yan", "cao", "shui", "shou1">>,
      <<"yan", "cao", "zhuan", "mai">>,
      <<>> }

KnowledgeQueries ==
    { <<"yan", "cao">>,
      <<"shui", "shou1", "fwcomma", "shi", "chang">> }

InitKnowledge ==
    /\ NoDecoder
    /\ NoRetriever
    /\ NoRetry
    /\ NoFunction
    /\ kcorpus \in KnowledgeFiles
    /\ ktokenized = [i \in DOMAIN kcorpus |-> KR_tokenize(kcorpus[i])]
    /\ kcache = <<>>
    /\ kthreads = [t \in Threads |-> IdleThread]

NoCallInFlight == \A t \in Threads : kthreads[t].pc = "idle"

\* search(query, topk) as one call: the cached value on a hit, the computed
\* value, then cached, on a miss.
K_Search(t) ==
    /\ NoCallInFlight
    /\ \E query \in KnowledgeQueries, topk \in 1..MaxTopK :
         \E hit \in {LruFind(kcache, <<query, topk>>)} :
         \E value \in {IF hit > 0 THEN kcache[hit].value
                       ELSE KR_search(kcorpus, ktokenized, query, topk)} :
            /\ kcache' = IF hit > 0 THEN LruTouch(kcache, hit)
                         ELSE LruStore(kcache, <<query, topk>>, value)
            /\ kthreads' = [kthreads EXCEPT ![t] =
                   [IdleThread EXCEPT !.pc = "returned", !.op = "search",
                                      !.query = query, !.topk = topk,
                                      !.result = value]]
    /\ UNCHANGED <<kcorpus, ktokenized>>
    /\ UNCHANGED notKnowledge

\* add_knowledge(text) as one call.
K_AddKnowledge(t) ==
    /\ NoCallInFlight
    /\ \E new \in KnowledgeTexts :
          /\ IF new # <<>> /\ new \notin Range(kcorpus)
             THEN /\ kcorpus' = Append(kcorpus, new)
                  /\ ktokenized' = Append(ktokenized, KR_tokenize(new))
                  /\ kcache' = LruClear(kcache)
             ELSE UNCHANGED <<kcorpus, ktokenized, kcache>>
          /\ kthreads' = [kthreads EXCEPT ![t] =
                 [IdleThread EXCEPT !.pc = "returned", !.op = "add",
                                    !.text = new]]
    /\ UNCHANGED notKnowledge

\* The caller has taken what the call returned.
K_Return(t) ==
    /\ kthreads[t].pc = "returned"
    /\ kthreads' = [kthreads EXCEPT ![t] = IdleThread]
    /\ UNCHANGED <<kcorpus, ktokenized, kcache>>
    /\ UNCHANGED notKnowledge

NextKnowledge ==
    \E t \in Threads : K_Search(t) \/ K_AddKnowledge(t) \/ K_Return(t)

SpecKnowledge == InitKnowledge /\ [][NextKnowledge]_vars

---------------------------------------------------------------------------
(* The knowledge retriever with callers that modify what search returned  *)

\* What a caller may do to the list it got: result.clear(), or
\* result[0]['snippet'] = ''.
Modified(result) ==
    {<<>>, [result EXCEPT ![1] = [@ EXCEPT !.snippet = <<>>]]}

\* The caller modifies the list search returned to it.  lru_cache hands out
\* the very object it stores, so the cached value changes with it.
K_Modify(t) ==
    /\ kthreads[t].pc = "returned"
    /\ kthreads[t].op = "search"
    /\ kthreads[t].result # <<>>
    /\ \E hit \in {LruFind(kcache, <<kthreads[t].query, kthreads[t].topk>>)},
          changed \in Modified(kthreads[t].result) :
          /\ hit > 0
          /\ kcache[hit].value = kthreads[t].result
          /\ kcache' = [kcache EXCEPT ![hit] = [@ EXCEPT !.value = changed]]
          /\ kthreads' = [kthreads EXCEPT ![t] =
                             [@ EXCEPT !.result = changed]]
    /\ UNCHANGED <<kcorpus, ktokenized>>
    /\ UNCHANGED notKnowledge

NextKnowledgeCallers ==
    \E t \in Threads :
        K_Search(t) \/ K_AddKnowledge(t) \/ K_Return(t) \/ K_Modify(t)

SpecKnowledgeCallers == InitKnowledge /\ [][NextKnowledgeCallers]_vars

---------------------------------------------------------------------------
(* The knowledge retriever called from several threads: the steps of a    *)
(* call interleave with the steps of the calls of the other threads.      *)

\* The query the concurrent callers search for: "shui shou1, shi chang".
ThreadQueries == { <<"shui", "shou1", "fwcomma", "shi", "chang">> }

\* The lru_cache wrapper looks the key up: a hit returns the cached value.
T_SearchCall(t) ==
    /\ kthreads[t].pc = "idle"
    /\ \E query \in ThreadQueries, topk \in 1..MaxTopK :
         \E hit \in {LruFind(kcache, <<query, topk>>)} :
            IF hit > 0
            THEN /\ kcache' = LruTouch(kcache, hit)
                 /\ kthreads' = [kthreads EXCEPT ![t] =
                        [IdleThread EXCEPT !.pc = "returned",
                                           !.op = "search",
                                           !.query = query, !.topk = topk,
                                           !.result = kcache[hit].value]]
            ELSE /\ kcache' = kcache
                 /\ kthreads' = [kthreads EXCEPT ![t] =
                        [IdleThread EXCEPT !.pc = "scan", !.op = "search",
                                           !.query = query, !.topk = topk]]
    /\ UNCHANGED <<kcorpus, ktokenized>>
    /\ UNCHANGED notKnowledge

\* search tokenizes the query and scores self.tokenized_corpus.
T_SearchScan(t) ==
    /\ kthreads[t].pc = "scan"
    /\ \E query_tokens \in {CharSet(KR_tokenize(kthreads[t].query))} :
          kthreads' = [kthreads EXCEPT ![t] =
              [@ EXCEPT !.pc = "build",
                        !.query_tokens = query_tokens,
                        !.top = IF query_tokens = {} THEN <<>>
                                ELSE KR_top(ktokenized, query_tokens,
                                            kthreads[t].topk)]]
    /\ UNCHANGED <<kcorpus, ktokenized, kcache>>
    /\ UNCHANGED notKnowledge

\* search reads self.corpus for the snippets of its results.
T_SearchBuild(t) ==
    /\ kthreads[t].pc = "build"
    /\ kthreads' = [kthreads EXCEPT ![t] =
           [@ EXCEPT !.pc = "store",
                     !.result = KR_results(kcorpus, kthreads[t].top,
                                           kthreads[t].query_tokens)]]
    /\ UNCHANGED <<kcorpus, ktokenized, kcache>>
    /\ UNCHANGED notKnowledge

\* The wrapper caches what search returned.
T_SearchStore(t) ==
    /\ kthreads[t].pc = "store"
    /\ kcache' = LruStore(kcache, <<kthreads[t].query, kthreads[t].topk>>,
                          kthreads[t].result)
    /\ kthreads' = [kthreads EXCEPT ![t] = [@ EXCEPT !.pc = "returned"]]
    /\ UNCHANGED <<kcorpus, ktokenized>>
    /\ UNCHANGED notKnowledge

\* add_knowledge: if text and text not in self.corpus
T_AddCheck(t) ==
    /\ kthreads[t].pc = "idle"
    /\ \E new \in KnowledgeTexts :
          kthreads' = [kthreads EXCEPT ![t] =
              [IdleThread EXCEPT !.op = "add", !.text = new,
                  !.pc = IF new # <<>> /\ new \notin Range(kcorpus)
                         THEN "append_corpus" ELSE "returned"]]
    /\ UNCHANGED <<kcorpus, ktokenized, kcache>>
    /\ UNCHANGED notKnowledge

\* self.corpus.append(text)
T_AddCorpus(t) ==
    /\ kthreads[t].pc = "append_corpus"
    /\ kcorpus' = Append(kcorpus, kthreads[t].text)
    /\ kthreads' = [kthreads EXCEPT ![t] = [@ EXCEPT !.pc = "append_tokens"]]
    /\ UNCHANGED <<ktokenized, kcache>>
    /\ UNCHANGED notKnowledge

\* self.tokenized_corpus.append(self._tokenize(text))
T_AddTokens(t) ==
    /\ kthreads[t].pc = "append_tokens"
    /\ ktokenized' = Append(ktokenized, KR_tokenize(kthreads[t].text))
    /\ kthreads' = [kthreads EXCEPT ![t] = [@ EXCEPT !.pc = "cache_clear"]]
    /\ UNCHANGED <<kcorpus, kcache>>
    /\ UNCHANGED notKnowledge

\* self.search.cache_clear()
T_AddClear(t) ==
    /\ kthreads[t].pc = "cache_clear"
    /\ kcache' = LruClear(kcache)
    /\ kthreads' = [kthreads EXCEPT ![t] = [@ EXCEPT !.pc = "returned"]]
    /\ UNCHANGED <<kcorpus, ktokenized>>
    /\ UNCHANGED notKnowledge

NextKnowledgeThreads ==
    \E t \in Threads :
        \/ T_SearchCall(t) \/ T_SearchScan(t) \/ T_SearchBuild(t)
        \/ T_SearchStore(t)
        \/ T_AddCheck(t) \/ T_AddCorpus(t) \/ T_AddTokens(t) \/ T_AddClear(t)
        \/ K_Return(t)

SpecKnowledgeThreads == InitKnowledge /\ [][NextKnowledgeThreads]_vars

---------------------------------------------------------------------------
(* api_retry and rewrite_with_learning (src/agents/few_shot_rewriter.py) *)

\* retry_errors of the wrapper.
retry_errors ==
    { <<"4", "2", "9">>,
      <<"r", "a", "t", "e", " ", "l", "i", "m", "i", "t">>,
      <<"r", "a", "t", "e", "_", "l", "i", "m", "i", "t">>,
      <<"r", "e", "t", "r", "y">>,
      <<"t", "i", "m", "e", "o", "u", "t">> }

should_retry_always(message) == TRUE

\* should_retry: the lowered message holds one of the retry_errors.
should_retry(message) ==
    \E err \in retry_errors : Contains(Lower(message), err)

\* The largest max_attempts a wrapper is built with.
MaxAttempts == 3

\* base_delay, in tenths of a second: the default 2.0 and the 3.0 of
\* rewrite_with_learning.
BaseDelays == {20, 30}

\* random.uniform(0, 1), in tenths of a second.
Jitters == {0, 5, 10}

Pow2(n) == IF n = 0 THEN 1 ELSE IF n = 1 THEN 2 ELSE IF n = 2 THEN 4
           ELSE IF n = 3 THEN 8 ELSE 16

Delay_fixed(base_delay, attempt, jitter) == base_delay + jitter

\* delay = base_delay * (2 ** attempt) + random.uniform(0, 1)
Delay(base_delay, attempt, jitter) == base_delay * Pow2(attempt) + jitter

\* The messages of the errors an API call raises: "Error 429",
\* "Rate limit", "rate_limit", "Retry later", "Timeout", "Bad request",
\* "Invalid key".
ErrorMessages ==
    { <<"E", "r", "r", "o", "r", " ", "4", "2", "9">>,
      <<"R", "a", "t", "e", " ", "l", "i", "m", "i", "t">>,
      <<"r", "a", "t", "e", "_", "l", "i", "m", "i", "t">>,
      <<"R", "e", "t", "r", "y", " ", "l", "a", "t", "e", "r">>,
      <<"T", "i", "m", "e", "o", "u", "t">>,
      <<"B", "a", "d", " ", "r", "e", "q", "u", "e", "s", "t">>,
      <<"I", "n", "v", "a", "l", "i", "d", " ", "k", "e", "y">> }

Returned(success, error) ==
    [kind |-> "returned", success |-> success, error |-> error]

Raised(error) == [kind |-> "raised", success |-> FALSE, error |-> error]

\* What one API call does: it returns, or raises an error.
ApiOutcomes == {Returned(TRUE, <<>>)} \cup {Raised(m) : m \in ErrorMessages}

\* The body of rewrite_with_learning around its generation call: the
\* try/except turns every error into a returned failure result.
rewrite_with_learning(generation) ==
    IF generation.kind = "raised"
    THEN Returned(FALSE, generation.error)
    ELSE generation

\* What one call of the wrapped function does.
FuncOutcomes(func) ==
    IF func = "rewrite_with_learning"
    THEN {rewrite_with_learning(g) : g \in ApiOutcomes}
    ELSE ApiOutcomes

\* The decorated functions: a bare API call under any api_retry(...), and
\* rewrite_with_learning under api_retry(max_attempts=3, base_delay=3.0).
Decorated ==
    {[func |-> "call_api", max_attempts |-> n, base_delay |-> b] :
        n \in 0..MaxAttempts, b \in BaseDelays}
    \cup {[func |-> "rewrite_with_learning", max_attempts |-> 3,
           base_delay |-> 30]}

InitRetry ==
    /\ NoDecoder
    /\ NoRetriever
    /\ NoKnowledge
    /\ NoFunction
    /\ retry = IdleRetry

\* wrapper(*args, **kwargs) is entered.
W_Call ==
    /\ retry.pc = "idle"
    /\ \E d \in Decorated :
          retry' = [IdleRetry EXCEPT !.pc = "loop", !.func = d.func,
                                     !.max_attempts = d.max_attempts,
                                     !.base_delay = d.base_delay]
    /\ UNCHANGED notRetry

\* One pass of "for attempt in range(max_attempts)": the call, and on an
\* error the choice between sleeping before the next pass and raising.
W_Attempt ==
    /\ retry.pc = "loop"
    /\ retry.attempt < retry.max_attempts
    /\ \E o \in FuncOutcomes(retry.func), jitter \in Jitters :
          retry' =
             IF o.kind = "returned"
             THEN [retry EXCEPT !.pc = "done", !.calls = @ + 1,
                                !.outcome = o]
             ELSE IF should_retry(o.error)
                     /\ retry.attempt < retry.max_attempts - 1
             THEN [retry EXCEPT !.calls = @ + 1,
                                !.errors = Append(@, o.error),
                                !.slept = Append(@, Delay(retry.base_delay,
                                                retry.attempt, jitter)),
                                !.attempt = @ + 1]
             ELSE [retry EXCEPT !.pc = "done", !.calls = @ + 1,
                                !.errors = Append(@, o.error),
                                !.outcome = o]
    /\ UNCHANGED notRetry

\* The call after the loop, reached when the loop made no pass.
W_AfterLoop ==
    /\ retry.pc = "loop"
    /\ retry.attempt >= retry.max_attempts
    /\ \E o \in FuncOutcomes(retry.func) :
          retry' = [retry EXCEPT !.pc = "done", !.calls = @ + 1,
                       !.errors = IF o.kind = "raised"
                                  THEN Append(@, o.error) ELSE @,
                       !.outcome = o]
    /\ UNCHANGED notRetry

\* The caller has the outcome.
W_Done ==
    /\ retry.pc = "done"
    /\ retry' = IdleRetry
    /\ UNCHANGED notRetry

NextRetry == W_Call \/ W_Attempt \/ W_AfterLoop \/ W_Done

SpecRetry == InitRetry /\ [][NextRetry]_vars

---------------------------------------------------------------------------
(* retry_with_backoff (src/utils/helpers.py) and the function it          *)
(* decorates, BaseAgent.call_claude_api (src/agents/base_agent.py)        *)

MaxRetries == 3

\* The functions under retry_with_backoff: call_claude_api, an "async def"
\* decorated with max_retries=3, base_delay=1.0, and a plain "def" under
\* any retry_with_backoff(...).  Delays are in tenths of a second.
BackoffDecorated ==
    {[func |-> "call_claude_api", async |-> TRUE, max_retries |-> 3,
      base_delay |-> 10]}
    \cup {[func |-> "plain_call", async |-> FALSE, max_retries |-> n,
           base_delay |-> b] : n \in 0..MaxRetries, b \in {10, 20, 30}}

\* delay = base_delay * (2 ** attempt)
BackoffDelay(base_delay, attempt) == base_delay * Pow2(attempt)

\* The coroutine object a call of an "async def" function returns.
Coroutine == [kind |-> "coroutine", success |-> FALSE, error |-> <<>>]

\* func(*args, **kwargs) as the wrapper sees it: calling an "async def"
\* function runs none of its body and returns a coroutine object; calling
\* a plain function runs the body.
CallOutcomes(async) == IF async THEN {Coroutine} ELSE ApiOutcomes

\* The body of call_claude_api: the except clause logs and re-raises.
call_claude_api(api) == api

IdleBackoff ==
    [pc |-> "idle", func |-> "none", async |-> FALSE, max_retries |-> 0,
     base_delay |-> 0, attempt |-> 0, calls |-> 0, runs |-> 0,
     slept |-> <<>>, outcome |-> NoOutcome]

InitBackoff ==
    /\ NoDecoder
    /\ NoRetriever
    /\ NoKnowledge
    /\ NoFunction
    /\ retry = IdleBackoff

\* wrapper(*args, **kwargs) is entered.
B_Call ==
    /\ retry.pc = "idle"
    /\ \E d \in BackoffDecorated :
          retry' = [IdleBackoff EXCEPT !.pc = "loop", !.func = d.func,
                                       !.async = d.async,
                                       !.max_retries = d.max_retries,
                                       !.base_delay = d.base_delay]
    /\ UNCHANGED notRetry

\* One pass of "for attempt in range(max_retries + 1)".
B_Attempt ==
    /\ retry.pc = "loop"
    /\ retry.attempt <= retry.max_retries
    /\ \E o \in CallOutcomes(retry.async) :
          retry' =
             IF o.kind = "coroutine"
             THEN [retry EXCEPT !.pc = "returned", !.calls = @ + 1,
                                !.outcome = o]
             ELSE IF o.kind = "returned"
             THEN [retry EXCEPT !.pc = "done", !.calls = @ + 1,
                                !.runs = @ + 1, !.outcome = o]
             ELSE IF retry.attempt = retry.max_retries
             THEN [retry EXCEPT !.pc = "done", !.calls = @ + 1,
                                !.runs = @ + 1, !.outcome = o]
             ELSE [retry EXCEPT !.calls = @ + 1, !.runs = @ + 1,
                                !.slept = Append(@,
                                   BackoffDelay(retry.base_delay,
                                                retry.attempt)),
                                !.attempt = @ + 1]
    /\ UNCHANGED notRetry

\* "return await self.call_claude_api(messages)": the caller awaits the
\* coroutine the wrapper returned; the body runs now, outside the wrapper.
B_Await ==
    /\ retry.pc = "returned"
    /\ \E api \in ApiOutcomes :
          retry' = [retry EXCEPT !.pc = "done", !.runs = @ + 1,
                                 !.outcome = call_claude_api(api)]
    /\ UNCHANGED notRetry

\* The caller has the outcome.
B_Done ==
    /\ retry.pc = "done"
    /\ retry' = IdleBackoff
    /\ UNCHANGED notRetry

NextBackoff == B_Call \/ B_Attempt \/ B_Await \/ B_Done

SpecBackoff == InitBackoff /\ [][NextBackoff]_vars

---------------------------------------------------------------------------

(* XHFQualityChecker (src/core/xhf_quality_checker.py) *)

\* Scores are counted in 1/300: 1.0 is 300, 0.02 is 6, 1/3 is 100.
ScoreUnit == 300

Max(a, b) == IF a >= b THEN a ELSE b

\* f"{title} {lead} {body}"
Joined(rewritten) ==
    rewritten.title \o <<" ">> \o rewritten.lead \o <<" ">> \o rewritten.body

\* The length of the match of \d+[.%<wan><yi><qian><bai>]?\d* at p, 0 for
\* no match.
QC_number(s, p) ==
    Bind(DigitRun(s, p), LAMBDA d :
        IF d = 0 THEN 0
        ELSE IF At(s, p + d) \in {".", "%", "wan", "yi", "qian", "bai"}
        THEN d + 1 + DigitRun(s, p + d + 1)
        ELSE d)

\* The suffixes of org_pattern, in the order of its alternation.
org_suffixes ==
    << <<"gong", "si">>, <<"qi", "ye4">>, <<"ji2", "tuan">>, <<"ju">>,
       <<"ting">>, <<"bu">>, <<"gong1", "chang3">>, <<"zhong", "xin">>,
       <<"zhuan", "mai", "ju">> >>

\* The number of CJK characters s holds from position p on.
RECURSIVE CJKRun(_, _)
CJKRun(s, p) == IF At(s, p) \in CJK THEN 1 + CJKRun(s, p + 1) ELSE 0

\* The first suffix that occurs at p, 0 for none.
SuffixAt(s, p) ==
    Bind({k \in DOMAIN org_suffixes : OccursAt(s, org_suffixes[k], p)},
         LAMBDA ks : IF ks = {} THEN 0
                     ELSE CHOOSE k \in ks : \A j \in ks : k <= j)

\* The length of the match of org_pattern at p, 0 for no match: the longest
\* run of 2..10 CJK characters that a suffix follows.
QC_org(s, p) ==
    Bind({n \in 2..Min(10, CJKRun(s, p)) : SuffixAt(s, p + n) > 0},
         LAMBDA ns : IF ns = {} THEN 0
                     ELSE Bind(CHOOSE n \in ns : \A j \in ns : n >= j,
                               LAMBDA n :
                                  n + Len(org_suffixes[SuffixAt(s, p + n)])))

QC_match(kind, s, p) == IF kind = "number" THEN QC_number(s, p)
                        ELSE QC_org(s, p)

\* set(re.findall(pattern, s)), scanning from p on.
RECURSIVE QC_findall(_, _, _)
QC_findall(kind, s, p) ==
    IF p > Len(s) THEN {}
    ELSE Bind(QC_match(kind, s, p), LAMBDA n :
            IF n = 0 THEN QC_findall(kind, s, p + 1)
            ELSE {Slice(s, p, n)} \cup QC_findall(kind, s, p + n))

consistency_score(missing_numbers, new_numbers, missing_orgs) ==
    Max(0, ScoreUnit
           - (IF missing_numbers # {} \/ new_numbers # {} THEN 90 ELSE 0)
           - (IF missing_orgs # {} THEN 60 ELSE 0))

check_factual_consistency(original, rewritten) ==
    Bind(QC_findall("number", original, 1), LAMBDA orig_numbers :
    Bind(QC_findall("number", Joined(rewritten), 1),
         LAMBDA rewritten_numbers :
    Bind(QC_findall("org", original, 1)
            \ QC_findall("org", Joined(rewritten), 1), LAMBDA missing_orgs :
        [score |-> consistency_score(orig_numbers \ rewritten_numbers,
                                     rewritten_numbers \ orig_numbers,
                                     missing_orgs),
         missing_numbers |-> orig_numbers \ rewritten_numbers,
         new_numbers |-> rewritten_numbers \ orig_numbers,
         missing_orgs |-> missing_orgs,
         numbers_match |-> orig_numbers = rewritten_numbers,
         entities_match |-> missing_orgs = {}])))

LengthScore_unfloored(len, low, high) ==
    IF len < low THEN ScoreUnit - (low - len) * 6
    ELSE IF len > high THEN ScoreUnit - (len - high) * 6
    ELSE ScoreUnit

\* The length score of the title and of the lead: 1.0 inside low..high,
\* max(0.7, 1.0 - deviation * 0.02) outside.
LengthScore(len, low, high) ==
    IF len < low THEN Max(210, ScoreUnit - (low - len) * 6)
    ELSE IF len > high THEN Max(210, ScoreUnit - (len - high) * 6)
    ELSE ScoreUnit

title_score(title_len) == LengthScore(title_len, 15, 30)

lead_score(lead_len) == LengthScore(lead_len, 60, 120)

\* sum(1 for phrase in phrases if phrase in full_text)
PresentCount(phrases, full_text) ==
    Cardinality({i \in DOMAIN phrases : Contains(full_text, phrases[i])})

term_score(term_count) == Min(ScoreUnit, 100 * term_count)

negative_score_unfloored(negative_count) == ScoreUnit - 30 * negative_count

negative_score(negative_count) == Max(0, ScoreUnit - 30 * negative_count)

\* The result of check_style_compliance, its score in 1/3000, together with
\* the four scores it is built from.
check_style_compliance(financial_terms, negative_phrases, rewritten) ==
    Bind(Joined(rewritten), LAMBDA full_text :
    Bind(PresentCount(financial_terms, full_text), LAMBDA term_count :
    Bind(PresentCount(negative_phrases, full_text), LAMBDA negative_count :
        [score |-> 3 * title_score(Len(rewritten.title))
                   + 3 * lead_score(Len(rewritten.lead))
                   + 3 * term_score(term_count)
                   + negative_score(negative_count),
         title_length |-> Len(rewritten.title),
         lead_length |-> Len(rewritten.lead),
         terminology_count |-> term_count,
         negative_phrases_count |-> negative_count,
         title_score |-> title_score(Len(rewritten.title)),
         lead_score |-> lead_score(Len(rewritten.lead)),
         term_score |-> term_score(term_count),
         negative_score |-> negative_score(negative_count)])))

\* len([p.strip() for p in body.split('\n') if p.strip()]): the lines of
\* body that hold more than white space, counted by their first such
\* character.
ParagraphCount(body) ==
    Cardinality({i \in DOMAIN body :
        /\ body[i] \notin {" ", "\t", "\n"}
        /\ \A j \in 1..(i - 1) :
              (\A k \in j..(i - 1) : body[k] # "\n")
                  => body[j] \in {" ", "\t"}})

\* The result of check_structure, its score in 1/15: coverage / 3.0,
\* times 0.8 when the paragraph count is outside 3..8.
check_structure(discourse_cues, rewritten) ==
    Bind(\E kw \in Range(discourse_cues.background) :
            Contains(rewritten.body, kw), LAMBDA has_background :
    Bind(\E kw \in Range(discourse_cues.action) :
            Contains(rewritten.body, kw), LAMBDA has_action :
    Bind(\E kw \in Range(discourse_cues.result) :
            Contains(rewritten.body, kw), LAMBDA has_result :
    Bind(Cardinality({b \in {<<1, has_background>>, <<2, has_action>>,
                             <<3, has_result>>} : b[2]}), LAMBDA coverage :
    Bind(ParagraphCount(rewritten.body), LAMBDA para_count :
        [score |-> IF para_count < 3 \/ para_count > 8
                   THEN 4 * coverage ELSE 5 * coverage,
         paragraph_count |-> para_count,
         has_background |-> has_background,
         has_action |-> has_action,
         has_result |-> has_result])))))

\* 0.4 * consistency + 0.35 * style + 0.25 * structure in 1/60000, from the
\* scores in 1/300, 1/3000 and 1/15.
Weighted(consistency, style, structure) ==
    80 * consistency + 7 * style + 1000 * structure

\* round(num / den, 2) of a binary float, in hundredths.  round() rounds
\* the float, which is a little above or below a sum that is a decimal tie
\* (0.4 * 1.0 + 0.35 * 0.5 is 0.575 and rounds to 0.57), so a tie has both
\* neighbours as outcomes.
RoundFloat2(num, den) ==
    {q \in {(100 * num) \div den, (100 * num) \div den + 1} :
        /\ 2 * (q * den - 100 * num) <= den
        /\ 2 * (100 * num - q * den) <= den}

\* The results of check; "overall" is round(overall, 2) in hundredths.
check(style_guide, negative_phrases, rewritten, original_text) ==
    Bind(check_factual_consistency(original_text, rewritten),
         LAMBDA consistency :
    Bind(check_style_compliance(style_guide.financial_terms,
                                negative_phrases, rewritten), LAMBDA style :
    Bind(check_structure(style_guide.discourse_cues, rewritten),
         LAMBDA structure :
        {[overall |-> q,
          details |-> [consistency |-> consistency, style |-> style,
                       structure |-> structure]] :
            q \in RoundFloat2(Weighted(consistency.score, style.score,
                                       structure.score), 60000)})))

\* The longest title and the longest lead of the checked candidates.
MaxTitleLen == 46

MaxLeadLen == 136

Filler(n, c) == [i \in 1..n |-> c]

TitleLens == 0..MaxTitleLen

LeadLens == {0, 45, 59, 60, 61, 119, 120, 121, MaxLeadLen - 1, MaxLeadLen}

\* terminology.financial_terms of the style guide: "zeng zhang",
\* "xiao shou", "shi chang", "tong bi".
FinancialTerms ==
    << <<"zeng", "zhang">>, <<"xiao", "shou">>, <<"shi", "chang">>,
       <<"tong", "bi">> >>

\* The negative phrases file: "gao du", "luo shi2".
NegativePhrases == << <<"gao", "du">>, <<"luo", "shi2">> >>

StyleBodies ==
    { <<>>,
      <<"xiao", "shou", "zeng", "zhang">>,
      <<"shi", "chang", "xiao", "shou", "tong", "bi", "zeng", "zhang",
        "fwcomma", "gao", "du", "luo", "shi2", "fwcomma", "gao", "du">> }

\* Original texts: "yan cao gong si xiao shou 85 wan",
\* "mou sheng yan cao zhuan mai ju zhao kai hui yi4", "xiao shou zeng zhang".
Originals ==
    { <<"yan", "cao", "gong", "si", "xiao", "shou", "8", "5", "wan">>,
      <<"mou", "sheng", "yan", "cao", "zhuan", "mai", "ju", "zhao", "kai",
        "hui", "yi4">>,
      <<"xiao", "shou", "zeng", "zhang">> }

FactTitles ==
    { <<"yan", "cao", "gong", "si", "xiao", "shou">>,
      <<"xiao", "shou", "8", "5", "wan">> }

FactLeads ==
    { <<>>,
      <<"zeng", "zhang", "9", "0", "wan">>,
      <<"mou", "sheng", "yan", "cao", "zhuan", "mai", "ju">> }

FactBodies ==
    { <<>>,
      <<"xiao", "shou", "8", "5", "wan", "fwcomma", "zeng", "zhang",
        "8", ".", "5", "%">> }

InitChecker ==
    /\ NoDecoder
    /\ NoRetriever
    /\ NoKnowledge
    /\ NoRetry
    /\ fcall = NoCall

\* check_style_compliance(rewritten) is called and returns.
Q_CheckStyle ==
    /\ fcall.fn = "none"
    /\ \E tl \in TitleLens, ll \in LeadLens, body \in StyleBodies :
         \E rewritten \in {[title |-> Filler(tl, "yan"),
                            lead |-> Filler(ll, "cao"), body |-> body]} :
            fcall' = [fn |-> "check_style_compliance",
                      args |-> [rewritten |-> rewritten],
                      result |-> check_style_compliance(FinancialTerms,
                                     NegativePhrases, rewritten)]
    /\ UNCHANGED notFunction

\* The style guide: its financial terms and its discourse cues "jin nian"
\* (background), "zhao kai" (action), "zeng zhang" (result).
StyleGuide ==
    [financial_terms |-> FinancialTerms,
     discourse_cues |-> [background |-> << <<"jin", "nian">> >>,
                         action |-> << <<"zhao", "kai">> >>,
                         result |-> << <<"zeng", "zhang">> >>]]

\* A negative phrases file of eleven lines, all of them parts of
\* "gao du tui jin luo shi2".
ManyNegativePhrases ==
    << <<"gao">>, <<"du">>, <<"tui">>, <<"jin">>, <<"luo">>, <<"shi2">>,
       <<"gao", "du">>, <<"du", "tui">>, <<"tui", "jin">>, <<"jin", "luo">>,
       <<"luo", "shi2">> >>

NegativeFiles == {NegativePhrases, ManyNegativePhrases}

\* The most paragraphs of a checked body.
MaxParagraphs == 9

\* The paragraphs the checked bodies are made of: "gao du tui jin luo shi2",
\* "yan cao gong si xiao shou 85 wan",
\* "jin nian zhao kai hui yi4, xiao shou zeng zhang" and
\* "mou sheng yan cao zhuan mai ju zhao kai hui yi4".
CheckLines ==
    { <<"gao", "du", "tui", "jin", "luo", "shi2">>,
      <<"yan", "cao", "gong", "si", "xiao", "shou", "8", "5", "wan">>,
      <<"jin", "nian", "zhao", "kai", "hui", "yi4", "fwcomma", "xiao",
        "shou", "zeng", "zhang">>,
      <<"mou", "sheng", "yan", "cao", "zhuan", "mai", "ju", "zhao", "kai",
        "hui", "yi4">> }

\* A body of n paragraphs: the line, then n - 1 paragraphs "yan".
Paragraphs(line, n) ==
    IF n = 0 THEN <<>>
    ELSE line \o [i \in 1..(2 * (n - 1)) |->
                    IF i % 2 = 1 THEN "\n" ELSE "yan"]

ParagraphCounts == {0, 1, 3, 8, MaxParagraphs}

CheckTitles == {0, 20}

\* check(rewritten, original_text) is called and returns.
Q_Check ==
    /\ fcall.fn = "none"
    /\ \E original \in Originals, tl \in CheckTitles, line \in CheckLines,
          n \in ParagraphCounts, negative_phrases \in NegativeFiles :
         \E rewritten \in {[title |-> Filler(tl, "yan"), lead |-> <<>>,
                            body |-> Paragraphs(line, n)]} :
            \E r \in check(StyleGuide, negative_phrases, rewritten,
                           original) :
               fcall' = [fn |-> "check",
                         args |-> [rewritten |-> rewritten,
                                   original_text |-> original,
                                   negative_phrases |-> negative_phrases],
                         result |-> r]
    /\ UNCHANGED notFunction

\* check_factual_consistency(original, rewritten) is called and returns.
Q_CheckFactual ==
    /\ fcall.fn = "none"
    /\ \E original \in Originals, title \in FactTitles, lead \in FactLeads,
          body \in FactBodies :
         \E rewritten \in {[title |-> title, lead |-> lead, body |-> body]} :
            fcall' = [fn |-> "check_factual_consistency",
                      args |-> [original |-> original,
                                rewritten |-> rewritten],
                      result |-> check_factual_consistency(original,
                                                           rewritten)]
    /\ UNCHANGED notFunction

\* The caller has the result.
Q_Return ==
    /\ fcall.fn \in {"check_style_compliance", "check_factual_consistency",
                     "check"}
    /\ fcall' = NoCall
    /\ UNCHANGED notFunction

NextChecker == Q_CheckStyle \/ Q_CheckFactual \/ Q_Check \/ Q_Return

SpecChecker == InitChecker /\ [][NextChecker]_vars

---------------------------------------------------------------------------
(* RewritePostProcessor (src/core/postprocess.py)                          *)
(* The full-width marks are named "fwperiod", "fwcomma", "fwbang",         *)
(* "fwquestion", "fwsemicolon" and "fwcolon".                              *)

IsSpace(c) == c \in {" ", "\t", "\n"}

\* str.lstrip(chars): s without its leading characters of the set.
RECURSIVE LStripSet(_, _)
LStripSet(s, chars) ==
    IF s # <<>> /\ s[1] \in chars THEN LStripSet(Tail(s), chars) ELSE s

RECURSIVE RStripSet(_, _)
RStripSet(s, chars) ==
    IF s # <<>> /\ s[Len(s)] \in chars
    THEN RStripSet(SubSeq(s, 1, Len(s) - 1), chars) ELSE s

\* str.strip()
Strip(s) == RStripSet(LStripSet(s, {" ", "\t", "\n"}), {" ", "\t", "\n"})

\* The position of the first digit of s from p on, 0 for none.
RECURSIVE FirstDigit(_, _)
FirstDigit(s, p) ==
    IF p > Len(s) THEN 0
    ELSE IF s[p] \in Digits THEN p ELSE FirstDigit(s, p + 1)

\* The length of the match of \d+\.?\d*[<wan><yi><qian><bai>]?
\* [<xiang1><yuan><jian5><ren>%]? at p, where a digit stands.
NumberSpan(s, p) ==
    Bind(DigitRun(s, p), LAMBDA d1 :
    Bind(d1 + (IF At(s, p + d1) = "." THEN 1 ELSE 0), LAMBDA d2 :
    Bind(d2 + DigitRun(s, p + d2), LAMBDA d3 :
    Bind(d3 + (IF At(s, p + d3) \in {"wan", "yi", "qian", "bai"}
               THEN 1 ELSE 0), LAMBDA d4 :
        d4 + (IF At(s, p + d4) \in {"xiang1", "yuan", "jian5", "ren", "%"}
              THEN 1 ELSE 0)))))

move_number_to_front_unmoved(title) == title

move_number_to_front(title) ==
    Bind(FirstDigit(title, 1), LAMBDA p :
        IF p = 0 THEN title
        ELSE Bind(Slice(title, p, NumberSpan(title, p)), LAMBDA number :
                number \o <<"fwcolon">>
                \o Strip(LStripSet(Strip(ReplaceFirst(title, number, <<>>)),
                                   {"fwcolon", ":"}))))

title_limit == 15

process_title(title, column_id) ==
    IF title = <<>> THEN <<>>
    ELSE Bind(SelectSeq(title, LAMBDA c : c \notin {"!", "fwbang"}),
              LAMBDA bare :
         Bind(IF column_id = "economic_data"
              THEN move_number_to_front(bare) ELSE bare, LAMBDA moved :
            Strip(IF Len(moved) > title_limit
                  THEN SubSeq(moved, 1, title_limit) \o <<".", ".", ".">>
                  ELSE moved)))

\* The pieces ps[lo], ..., ps[hi] joined, halving the range.
RECURSIVE Flatten(_, _, _)
Flatten(ps, lo, hi) ==
    IF lo > hi THEN <<>>
    ELSE IF lo = hi THEN ps[lo]
    ELSE Flatten(ps, lo, (lo + hi) \div 2)
         \o Flatten(ps, (lo + hi) \div 2 + 1, hi)

\* re.sub(c+, c, s): every run of c becomes one c.
Collapse(s, c) ==
    Flatten([i \in DOMAIN s |->
                IF s[i] = c /\ At(s, i + 1) = c THEN <<>> ELSE <<s[i]>>],
            1, Len(s))

\* The characters of the look-behind and look-ahead class [:/\d].
UrlOrDigit == {":", "/"} \cup Digits

\* re.sub((?<![:/\d])eng(?![:/\d]), chn, s)
ToFullWidth(s, eng, chn) ==
    [i \in DOMAIN s |->
        IF s[i] = eng /\ At(s, i - 1) \notin UrlOrDigit
                      /\ At(s, i + 1) \notin UrlOrDigit
        THEN chn ELSE s[i]]

\* replacements, in the order of the dict.
replacements ==
    << <<",", "fwcomma">>, <<";", "fwsemicolon">>, <<":", "fwcolon">>,
       <<"!", "fwbang">>, <<"?", "fwquestion">> >>

RECURSIVE ApplyReplacements(_, _)
ApplyReplacements(s, k) ==
    IF k > Len(replacements) THEN s
    ELSE ApplyReplacements(
             ToFullWidth(s, replacements[k][1], replacements[k][2]), k + 1)

normalize_punctuation(s) ==
    ApplyReplacements(
        Collapse(Collapse(Collapse(Collapse(s, "fwperiod"), "fwcomma"),
                          "fwbang"), "fwquestion"), 1)

\* ' '.join(s.split()): the words of s, one space between them.
Squeeze(s) ==
    Flatten([i \in DOMAIN s |->
                IF ~IsSpace(s[i]) THEN <<s[i]>>
                ELSE IF IsSpace(At(s, i + 1)) THEN <<>> ELSE <<" ">>],
            1, Len(s))

JoinSplit(s) == Squeeze(Strip(s))

\* str.rfind(c) + 1: the last position of c in s, 0 for none.
RFind(s, c) ==
    Bind({i \in DOMAIN s : s[i] = c}, LAMBDA ps :
        IF ps = {} THEN 0 ELSE CHOOSE i \in ps : \A j \in ps : j <= i)

smart_truncate_hard(s, max_length) ==
    IF Len(s) <= max_length THEN s
    ELSE SubSeq(s, 1, max_length - 3) \o <<".", ".", ".">>

\* _smart_truncate; last_period is the 0-based index of the code, and
\* "last_period > max_length * 0.7" is compared in tenths.
smart_truncate(s, max_length) ==
    IF Len(s) <= max_length THEN s
    ELSE Bind(SubSeq(s, 1, max_length), LAMBDA truncated :
         Bind(Max(Max(RFind(truncated, "fwperiod"),
                      RFind(truncated, "fwbang")),
                  RFind(truncated, "fwquestion")) - 1, LAMBDA last_period :
            IF 10 * last_period > max_length * 7
            THEN SubSeq(truncated, 1, last_period + 1)
            ELSE SubSeq(truncated, 1, max_length - 3) \o <<".", ".", ".">>))

lead_limit == 80

lead_floor == 40

\* _process_lead; a lead shorter than lead_floor is only logged.
process_lead(lead) ==
    IF lead = <<>> THEN <<>>
    ELSE Bind(JoinSplit(lead), LAMBDA joined :
            Strip(normalize_punctuation(
                IF Len(joined) < lead_floor THEN joined
                ELSE IF Len(joined) > lead_limit
                THEN smart_truncate(joined, lead_limit)
                ELSE joined)))

\* The longest text given to _normalize_punctuation.
MaxPunctLen == 3

PunctChars == {"a", "1", "!", ",", ":", "/", "fwbang", "fwperiod"}

RECURSIVE TextsUpTo(_, _)
TextsUpTo(chars, n) ==
    IF n = 0 THEN {<<>>}
    ELSE Bind(TextsUpTo(chars, n - 1), LAMBDA shorter :
            shorter \cup {Append(t, c) : t \in shorter, c \in chars})

\* The longest run of filler characters at the end of a title.
MaxFill == 12

\* Titles: a head, a number, a tail and filler characters.
TitleHeads ==
    { <<>>, <<"yan", "cao">>, <<"fwcolon">>, <<"yan", "!", "cao", " ">> }

TitleNumbers ==
    { <<>>, <<"4", "5", ".", "2", "wan", "xiang1">>, <<"8", ".", "5", "%">>,
      <<"2", "0", "2", "4">> }

TitleTails ==
    { <<>>, <<"xiao", "shou">>, <<"xiao", "shou", "fwbang">>,
      <<"fwcolon", "zeng", "zhang", "1", "0", "0", "wan", "yuan">>,
      <<" ", "xiao", "shou", "4", "5", ".", "2", "wan", "xiang1">> }

TitleFills == {0, 4, MaxFill}

TitleColumns == {"economic_data", "news_general"}

InitPostprocess ==
    /\ NoDecoder
    /\ NoRetriever
    /\ NoKnowledge
    /\ NoRetry
    /\ fcall = NoCall

\* _process_title(title, column_id) is called and returns.
P_ProcessTitle ==
    /\ fcall.fn = "none"
    /\ \E head \in TitleHeads, number \in TitleNumbers, tail \in TitleTails,
          fill \in TitleFills, column_id \in TitleColumns :
         \E title \in {head \o number \o tail \o Filler(fill, "yan")} :
            fcall' = [fn |-> "_process_title",
                      args |-> [title |-> title, column_id |-> column_id],
                      result |-> process_title(title, column_id)]
    /\ UNCHANGED notFunction

\* The longest run of characters after the second mark of a lead.
MaxLeadTail == 30

\* Leads: a run of characters, a mark, a run, a mark, a run.  The first
\* mark stands at 0-based index 10, 56 or 57; the second one up to index
\* 79, 80 or 81.
LeadStarts == {10, 56, 57}

LeadMiddles == {0, 21, 22, 23}

LeadTails == {0, 5, MaxLeadTail}

LeadMarks ==
    { <<>>, <<"fwperiod">>, <<"fwbang">>, <<"fwquestion">>, <<",">>,
      <<" ", " ">> }

\* _process_lead(lead) is called and returns.
P_ProcessLead ==
    /\ fcall.fn = "none"
    /\ \E start \in LeadStarts, middle \in LeadMiddles, tail \in LeadTails,
          mark1 \in LeadMarks, mark2 \in LeadMarks :
         \E lead \in {Filler(start, "yan") \o mark1 \o Filler(middle, "cao")
                      \o mark2 \o Filler(tail, "shui")} :
            fcall' = [fn |-> "_process_lead",
                      args |-> [lead |-> lead],
                      result |-> process_lead(lead)]
    /\ UNCHANGED notFunction

\* _normalize_punctuation(text) is called and returns.
P_Normalize ==
    /\ fcall.fn = "none"
    /\ \E t \in TextsUpTo(PunctChars, MaxPunctLen) :
          fcall' = [fn |-> "_normalize_punctuation",
                    args |-> [text |-> t, pass |-> 1],
                    result |-> normalize_punctuation(t)]
    /\ UNCHANGED notFunction

\* _normalize_punctuation is called on what it returned.
P_NormalizeAgain ==
    /\ fcall.fn = "_normalize_punctuation"
    /\ fcall.args.pass = 1
    /\ fcall' = [fn |-> "_normalize_punctuation",
                 args |-> [text |-> fcall.result, pass |-> 2],
                 result |-> normalize_punctuation(fcall.result)]
    /\ UNCHANGED notFunction

\* The caller has the result.
P_Return ==
    /\ fcall.fn \in {"_process_title", "_normalize_punctuation",
                     "_process_lead"}
    /\ fcall' = NoCall
    /\ UNCHANGED notFunction

NextPostprocess ==
    \/ P_ProcessTitle
    \/ P_ProcessLead
    \/ P_Normalize
    \/ P_NormalizeAgain
    \/ P_Return

SpecPostprocess == InitPostprocess /\ [][NextPostprocess]_vars



---------------------------------------------------------------------------
(* Claims about the ConstraintDecoder, checked under SpecDecoder *)

Encoded == dpc \in {"encoded", "generated", "restored", "verified"}

Restored == dpc \in {"restored", "verified"}

\* No generation step was applied: restore got the text to_placeholders made.
NoGeneration == Restored /\ generated = ph_text

HasLeak(s) == detect_placeholder_leak(s).has_leak

\* C1: with no generation step applied, restore(to_placeholders(text)) is the
\* original text again and detect_placeholder_leak reports no leak on it.
C1_RoundTrip ==
    NoGeneration => (restored = text /\ ~HasLeak(restored))

\* The keys whose placeholder to_placeholders did insert: the entity's value
\* occurred in the running text when its turn came.
RECURSIVE InsertedKeys(_, _)
InsertedKeys(result, ents) ==
    IF ents = <<>> THEN {}
    ELSE LET e == Head(ents)
             rest == InsertedKeys(ReplaceFirst(result, e.value, Placeholder(e.key)),
                                  Tail(ents))
         IN IF Contains(result, e.value) THEN {e.key} \cup rest ELSE rest

\* C2: the entities are substituted by descending length of value, and a
\* placeholder token that one substitution inserted is intact in the text
\* to_placeholders returns, whatever shorter values were substituted later.
C2_PlaceholdersIntact ==
    Encoded =>
      LET sorted == SortByLenDesc(entities) IN
      /\ \A i, j \in DOMAIN sorted :
            i < j => Len(sorted[i].value) >= Len(sorted[j].value)
      /\ \A k \in InsertedKeys(text, sorted) : Contains(ph_text, Placeholder(k))

\* C3: the token of every key of the mapping occurs verbatim in the text
\* to_placeholders returns, and none of them is left after restore of it.
C3_TokensPresentThenGone ==
    /\ Encoded =>
         \A i \in DOMAIN mapping : Contains(ph_text, Placeholder(mapping[i].key))
    /\ NoGeneration =>
         \A i \in DOMAIN mapping : ~Contains(restored, Placeholder(mapping[i].key))

\* Whether the spans <<p, n>> and <<q, m>> share a character.
Overlap(a, b) == a[1] < b[1] + b[2] /\ b[1] < a[1] + a[2]

\* The NUMBER matches of s that share no character with a DATE match.
NumbersOutsideDates(s) ==
    LET dates == FindIter("DATE", s)
        nums  == SelectSeq(FindIter("NUMBER", s),
                           LAMBDA n : \A i \in DOMAIN dates : ~Overlap(n, dates[i]))
    IN [i \in DOMAIN nums |-> Slice(s, nums[i][1], nums[i][2])]

NumEntityValues ==
    LET sel == SelectSeq(entities, LAMBDA e : e.type = "NUM") IN
    [i \in DOMAIN sel |-> sel[i].value]

\* C4: no part of a span captured as a DATE entity is captured again as a NUM
\* entity: the NUM entities are the NUMBER matches outside all DATE spans.
C4_DatesNotRecaptured ==
    dpc # "start" => NumEntityValues = NumbersOutsideDates(text)

\* The values of the NUMBER matches of s.
NumberShaped(s) ==
    {Slice(s, sp[1], sp[2]) : sp \in Range(FindIter("NUMBER", s))}

Allowed(num) ==
    \E i \in DOMAIN config.whitelist_patterns :
        PatternMatch(config.whitelist_patterns[i], num)

\* C5: check_new_numbers returns as new_numbers exactly the number-shaped
\* spans of the rewritten text that are no number-shaped span of the original
\* and match no allow-pattern, and is_valid exactly when there is none.
C5_NewNumbers ==
    dpc = "verified" =>
      /\ numbers.new_numbers =
           {n \in NumberShaped(restored) : n \notin NumberShaped(text) /\ ~Allowed(n)}
      /\ numbers.is_valid <=> (numbers.new_numbers = {})

\* The example of C5: a candidate that adds "20%" to an original without it
\* gets (False, ["20%"]).
C5_Witness ==
    /\ dpc = "verified"
    /\ Contains(text, <<"8", ".", "5", "%">>)
    /\ numbers = [is_valid |-> FALSE, new_numbers |-> {<<"2", "0", "%">>}]

KeysOfType(prefix) ==
    LET sel == SelectSeq(mapping, LAMBDA kv : SubSeq(kv.key, 1, Len(prefix)) = prefix)
    IN [i \in DOMAIN sel |-> sel[i].value]

\* C6: is_valid is the conjunction of: no mapped value is missing from the
\* rewritten text, check_new_numbers is valid, the rewritten text holds no
\* placeholder token; and entities_locked holds the dates, numbers and orgs of
\* the mapping whether or not the verification passes.
C6_VerifyConjunction ==
    dpc = "verified" =>
      /\ verdict.is_valid <=>
           /\ \A i \in DOMAIN mapping : Contains(restored, mapping[i].value)
           /\ numbers.is_valid
           /\ FindIter("LEAK", restored) = <<>>
      /\ verdict.audit_info.entities_locked =
           [dates   |-> KeysOfType(<<"D", "A", "T", "E">>),
            numbers |-> KeysOfType(<<"N", "U", "M">>),
            orgs    |-> KeysOfType(<<"O", "R", "G">>)]

\* A verification that fails on a leak alone, its entity lists reported.
C6_Witness ==
    /\ dpc = "verified"
    /\ ~verdict.is_valid
    /\ verdict.missing = <<>>
    /\ numbers.is_valid
    /\ verdict.audit_info.placeholder_leak.has_leak
    /\ verdict.audit_info.entities_locked.dates # <<>>
    /\ verdict.audit_info.entities_locked.orgs # <<>>

\* C7: restore and verify_entities return for every text and mapping: restore
\* returns the text and logs one warning exactly when a placeholder is left;
\* verify_entities reports a missing entity, a new number or a leak in what it
\* returns; and neither changes the mapping.
C7_SignalledNotThrown ==
    [][ /\ dpc = "generated" =>
             /\ dpc' = "restored"
             /\ mapping' = mapping
             /\ restored' = restore(generated, mapping)
             /\ warnings' = warnings + (IF HasLeak(restored') THEN 1 ELSE 0)
        /\ dpc = "restored" =>
             /\ dpc' = "verified"
             /\ mapping' = mapping
             /\ verdict'.missing = verdict'.audit_info.missing_entities
             /\ \A i \in DOMAIN mapping :
                   ~Contains(restored, mapping[i].value) =>
                       /\ ~verdict'.is_valid
                       /\ mapping[i].value \in Range(verdict'.missing)
             /\ numbers'.new_numbers # {} =>
                   /\ ~verdict'.is_valid
                   /\ verdict'.audit_info.new_numbers_detected = numbers'.new_numbers
             /\ HasLeak(restored) =>
                   /\ ~verdict'.is_valid
                   /\ verdict'.audit_info.placeholder_leak.has_leak
      ]_vars

\* A verification that reports a missing entity, a new number and a leak
\* together, after a restore that logged a warning.
C7_Witness ==
    /\ dpc = "verified"
    /\ warnings = 1
    /\ verdict.missing # <<>>
    /\ verdict.audit_info.new_numbers_detected # {}
    /\ verdict.audit_info.placeholder_leak.has_leak
    /\ mapping # <<>>

---------------------------------------------------------------------------
(* Retrieval claims *)

Scored(which) == rpc = which /\ request.op = "score"

Retrieved(which) == rpc = which /\ request.op = "retrieve"

\* The query terms that occur in indexed document i, with the index's own
\* tokens: the document's term frequencies and length.
IRTf(i, t) ==
    IF t \in ir_index.vocab THEN ir_index.bm25_index[i].tokens[t] ELSE 0

IRTerms(i) == {t \in CharSet(IR_tokenize(request.query)) : IRTf(i, t) > 0}

XHFTf(i, t) == Count(XHF_tokenize(FullText(samples[i])), t)

XHFTerms(i) == {t \in CharSet(XHF_tokenize(request.query)) : XHFTf(i, t) > 0}

\* C8: for two indexed documents of equal token length, if the query terms
\* occurring in d1 strictly contain those occurring in d2, with the same
\* term frequency for the shared terms, the BM25 score of d1 is not lower
\* than that of d2, in IntelligentRetriever._calculate_bm25_score and in
\* XHFSampleRetriever._bm25_score.
C8_BM25Monotone ==
    /\ Scored("ir_returned") =>
          \A d1, d2 \in DOMAIN articles :
              ( /\ ir_index.bm25_index[d1].length
                      = ir_index.bm25_index[d2].length
                /\ IRTerms(d2) \subseteq IRTerms(d1)
                /\ IRTerms(d2) # IRTerms(d1)
                /\ \A t \in IRTerms(d2) : IRTf(d1, t) = IRTf(d2, t) )
              => results[d1] >= results[d2]
    /\ Scored("xhf_returned") =>
          \A d1, d2 \in DOMAIN samples :
              ( /\ xhf_index.doc_lengths[d1] = xhf_index.doc_lengths[d2]
                /\ XHFTerms(d2) \subseteq XHFTerms(d1)
                /\ XHFTerms(d2) # XHFTerms(d1)
                /\ \A t \in XHFTerms(d2) : XHFTf(d1, t) = XHFTf(d2, t) )
              => results[d1] >= results[d2]

\* Character-set Jaccard overlap of two titles above 0.7.
TitlesOverlap(t1, t2) ==
    10 * Cardinality(CharSet(t1) \cap CharSet(t2))
        > 7 * Cardinality(CharSet(t1) \cup CharSet(t2))

\* The articles that pass the request's column filter.
ColumnMatches ==
    {i \in DOMAIN articles :
        Truthy(request.filter) =>
            request.filter \in articles[i].features.column_indicators}

\* There are top_k candidates no two of which overlap.
EnoughDiverseCandidates ==
    \E S \in SUBSET ColumnMatches :
        /\ Cardinality(S) = request.k
        /\ \A i, j \in S :
              i # j => ~TitlesOverlap(articles[i].title, articles[j].title)

\* C9: retrieve_similar_samples never returns two candidates whose titles
\* have character-set Jaccard overlap greater than 0.7, unless fewer than
\* top_k mutually non-overlapping candidates exist.
C9_DiverseTitles ==
    (Retrieved("ir_returned") /\ EnoughDiverseCandidates) =>
        \A i, j \in DOMAIN results :
            i # j => ~TitlesOverlap(results[i].title, results[j].title)

\* top_k mutually non-overlapping candidates exist, and the diversity loop
\* passed over a candidate that overlaps a returned one before it took a
\* candidate of lower rank.
C9_Witness ==
    /\ Retrieved("ir_returned")
    /\ EnoughDiverseCandidates
    /\ \E ranked \in {SortedCandidates(ir_index, articles, request.query,
                                        request.filter)} :
          \E p, q \in DOMAIN ranked, r \in DOMAIN results :
             /\ \A x, y \in DOMAIN ranked :
                   x # y => ranked[x].article.id # ranked[y].article.id
             /\ p < q
             /\ \A e \in DOMAIN results :
                   results[e].article_id # ranked[p].article.id
             /\ TitlesOverlap(ranked[p].article.title, results[r].title)
             /\ results[Len(results)].article_id = ranked[q].article.id

\* The samples of the type asked for.
TypeMatches ==
    {i \in DOMAIN samples :
        Truthy(request.filter) => samples[i].type = request.filter}

\* C10: when the categorical filter leaves fewer than k candidates while
\* other documents remain in the corpus, the result is filled up from the
\* remaining documents and has min(k, corpus size) entries.
C10_BackfillToK ==
    /\ ( /\ Retrieved("ir_returned")
         /\ Cardinality(ColumnMatches) < request.k
         /\ Cardinality(ColumnMatches) < Len(articles) )
       => Len(results) = Min(request.k, Len(articles))
    /\ ( /\ Retrieved("xhf_returned")
         /\ Cardinality(TypeMatches) < request.k
         /\ Cardinality(TypeMatches) < Len(samples) )
       => Len(results) = Min(request.k, Len(samples))

\* The score an entry of the result list carries.
EntryScore(which, e) ==
    IF which = "ir_returned" THEN e.similarity_score ELSE e.score

\* C11: the list returned by retrieve is in non-increasing score order and
\* holds at most k entries, for every query and every filter value, also
\* when the filter matches fewer than k documents.
C11_SortedTopK ==
    \A which \in {"ir_returned", "xhf_returned"} :
        Retrieved(which) =>
            /\ Len(results) <= request.k
            /\ \A i, j \in DOMAIN results :
                  i < j => EntryScore(which, results[i])
                              >= EntryScore(which, results[j])


\* What search(query, topk) computes over the corpus as it is now.
FreshResult(query, topk) == KR_search(kcorpus, ktokenized, query, topk)

\* The entry add_knowledge appends in the checked runs: "yan cao shui shou1".
AddedText == <<"yan", "cao", "shui", "shou1">>

SnippetsOf(result) == {result[i].snippet : i \in DOMAIN result}

\* C12: over any sequence of search and add_knowledge calls, a search that
\* has returned holds the result computed over the corpus as it is at the time
\* of the call, and no cached result was computed before an addition: every
\* entry of the cache is the result over the present corpus.
C12_CacheInvalidated ==
    /\ \A t \in Threads :
          kthreads[t].pc = "returned" /\ kthreads[t].op = "search" =>
             kthreads[t].result =
                FreshResult(kthreads[t].query, kthreads[t].topk)
    /\ \A i \in DOMAIN kcache :
          kcache[i].value = FreshResult(kcache[i].key[1], kcache[i].key[2])

\* C12 witness: a search returned after add_knowledge appended an entry, and
\* its result holds that entry, which no result computed before the addition
\* could hold.
C12_Witness ==
    \E t \in Threads :
        /\ kthreads[t].pc = "returned"
        /\ kthreads[t].op = "search"
        /\ AddedText \in Range(kcorpus)
        /\ AddedText \in SnippetsOf(kthreads[t].result)
        /\ Len(kcache) >= 1

\* A thread is between the first append of add_knowledge and its return.
AddInFlight ==
    \E t \in Threads :
        kthreads[t].pc \in {"append_corpus", "append_tokens", "cache_clear"}

\* A step in which thread t's search reads tokenized_corpus or corpus.
SearchReads(t) ==
    \/ kthreads[t].pc = "scan" /\ kthreads'[t].pc = "build"
    \/ kthreads[t].pc = "build" /\ kthreads'[t].pc = "store"

\* C13: with add_knowledge and search running on several threads, no search
\* reads corpus and tokenized_corpus while their lengths differ, and once
\* add_knowledge has returned the cache holds no result computed from the
\* corpus as it was before the addition, so that every later search yields the
\* result for the updated corpus.
C13_UpdatesSerialized ==
    [][ /\ \A t \in Threads :
              SearchReads(t) => Len(kcorpus) = Len(ktokenized)
        /\ ~AddInFlight' =>
              \A i \in DOMAIN kcache' :
                  kcache'[i].value =
                     KR_search(kcorpus', ktokenized',
                               kcache'[i].key[1], kcache'[i].key[2])
      ]_vars

\* An error of the transient class: its message, in lower case, contains
\* "429", "rate limit", "rate_limit", "retry" or "timeout".
Transient(message) ==
    \E err \in retry_errors : Contains(Lower(message), err)

\* C14: the api_retry wrapper calls the wrapped function again, after a
\* sleep, only when the error it raised is of the transient class; an error
\* of any other class is raised to the caller at once, with no sleep and no
\* call after it, so that a first error of another class ends the wrapper
\* after a single call.
C14_RetryOnlyTransient ==
    /\ Len(retry.slept) <= Len(retry.errors)
    /\ \A i \in DOMAIN retry.slept : Transient(retry.errors[i])
    /\ \A i \in DOMAIN retry.errors :
          ~Transient(retry.errors[i]) =>
              /\ retry.pc = "done"
              /\ retry.outcome = Raised(retry.errors[i])
              /\ i = Len(retry.errors)
              /\ retry.calls = i
              /\ Len(retry.slept) = i - 1

\* C14 witness: under max_attempts = 3 a first call raised "Timeout" and was
\* retried after a sleep, the second call raised "Invalid key", which was
\* raised to the caller with no further sleep or call.
C14_Witness ==
    /\ retry.pc = "done"
    /\ retry.max_attempts = 3
    /\ Len(retry.errors) = 2
    /\ Transient(retry.errors[1])
    /\ ~Transient(retry.errors[2])
    /\ retry.outcome = Raised(retry.errors[2])
    /\ retry.calls = 2
    /\ Len(retry.slept) = 1

\* C20: rewrite_with_learning runs under api_retry(max_attempts=3): when its
\* generation call fails with an error of the transient class the whole call
\* is made again, so a failure result for such an error reaches the caller
\* only after all three attempts were made.
C20_RewriteRetried ==
    ( /\ retry.func = "rewrite_with_learning"
      /\ retry.pc = "done"
      /\ retry.outcome.kind = "returned"
      /\ ~retry.outcome.success
      /\ Transient(retry.outcome.error) )
    => retry.calls = retry.max_attempts

StyleCall == fcall.fn = "check_style_compliance"

\* The number of characters a length lies outside low..high.
Outside(len, low, high) ==
    IF len < low THEN low - len ELSE IF len > high THEN len - high ELSE 0

\* max(0.7, 1.0 - 0.02 * d), in 1/300.
ClaimedLengthScore(d) == IF 300 - 6 * d >= 210 THEN 300 - 6 * d ELSE 210

\* C15: in check_style_compliance the length score of the title is 1.0 for
\* every length in 15..30 and that of the lead is 1.0 for every length in
\* 60..120; a length d characters outside its range scores
\* max(0.7, 1.0 - 0.02*d): 0.98 for one character, 0.7 for 15 or more.
C15_LengthScore ==
    StyleCall =>
        /\ fcall.result.title_score =
              ClaimedLengthScore(Outside(fcall.result.title_length, 15, 30))
        /\ fcall.result.lead_score =
              ClaimedLengthScore(Outside(fcall.result.lead_length, 60, 120))
        /\ (fcall.result.title_length \in 15..30
               => fcall.result.title_score = 300)
        /\ (fcall.result.lead_length \in 60..120
               => fcall.result.lead_score = 300)
        /\ (fcall.result.title_length \in {14, 31}
               => fcall.result.title_score = 294)
        /\ (fcall.result.lead_length \in {59, 121}
               => fcall.result.lead_score = 294)
        /\ (Outside(fcall.result.title_length, 15, 30) >= 15
               => fcall.result.title_score = 210)
        /\ (Outside(fcall.result.lead_length, 60, 120) >= 15
               => fcall.result.lead_score = 210)

\* C15 witness: a title of 31 characters scored 0.98 beside a lead of 136
\* characters, 16 outside its range, scored 0.7.
C15_Witness ==
    /\ StyleCall
    /\ Len(fcall.args.rewritten.title) = 31
    /\ fcall.result.title_score = 294
    /\ Len(fcall.args.rewritten.lead) = 136
    /\ fcall.result.lead_score = 210

FactCall == fcall.fn = "check_factual_consistency"

\* C17: the score of check_factual_consistency is 1.0 less 0.3 when numbers
\* of the original are missing, less another 0.3 when the candidate holds new
\* numbers (0.6 for a candidate that both drops and adds numbers), less 0.2
\* when organizations are missing, and never below 0.
C17_FactualDeductions ==
    FactCall =>
        fcall.result.score =
            Max(0, 300
                   - (IF fcall.result.missing_numbers # {} THEN 90 ELSE 0)
                   - (IF fcall.result.new_numbers # {} THEN 90 ELSE 0)
                   - (IF fcall.result.missing_orgs # {} THEN 60 ELSE 0))

\* C16: _normalize_punctuation is idempotent: applied to a text it has
\* returned, it returns that text unchanged.
C16_NormalizeIdempotent ==
    (fcall.fn = "_normalize_punctuation" /\ fcall.args.pass = 2)
        => fcall.result = fcall.args.text

TitleCall == fcall.fn = "_process_title"

\* a is b with some characters left out, the others in their order.
RECURSIVE IsSubsequence(_, _)
IsSubsequence(a, b) ==
    IF a = <<>> THEN TRUE
    ELSE IF b = <<>> THEN FALSE
    ELSE IF a[1] = b[1] THEN IsSubsequence(Tail(a), Tail(b))
    ELSE IsSubsequence(a, Tail(b))

\* The title was cut by the length control: it ends with the "..." marker.
Truncated(r) ==
    /\ Len(r) > 15
    /\ SubSeq(r, Len(r) - 2, Len(r)) = <<".", ".", ".">>

\* The returned title without the marker of the length control.
Unmarked(r) == IF Truncated(r) THEN SubSeq(r, 1, Len(r) - 3) ELSE r

NoBangs(s) == SelectSeq(s, LAMBDA c : c \notin {"!", "fwbang"})

\* The characters that are neither white space nor a colon.
Essential(s) ==
    SelectSeq(s, LAMBDA c : c \notin {" ", "\t", "\n", ":", "fwcolon"})

\* The title of an economic_data call starts with the first number span
\* and a full-width colon, the characters outside the span follow in their
\* order, all of them unless the length control cut the title.
NumberInFront(title, r) ==
    Bind(FirstDigit(title, 1), LAMBDA p :
    Bind(NumberSpan(title, p), LAMBDA n :
    Bind(SubSeq(title, 1, p - 1) \o SubSeq(title, p + n, Len(title)),
         LAMBDA others :
        /\ SubSeq(r, 1, Min(Len(r), n + 1))
              = SubSeq(Slice(title, p, n) \o <<"fwcolon">>, 1,
                       Min(Len(r), n + 1))
        /\ Len(r) >= Min(n + 1, 15)
        /\ IsSubsequence(SubSeq(r, n + 2, Len(r)), others)
        /\ (Len(others) + n + 1 <= 15
               => Essential(SubSeq(r, n + 2, Len(r))) = Essential(others)))))

C19_TitleWithinLimit ==
    TitleCall => Len(fcall.result) <= 15


---------------------------------------------------------------------------
(* The api_retry wrapper whose wrapped call always comes back: every pass  *)
(* of the loop, and the call after it, is eventually made.                *)

SpecRetryLive ==
    SpecRetry /\ WF_vars(W_Attempt) /\ WF_vars(W_AfterLoop)

\* What holds of a wrapper built with max_attempts >= 1 at every moment.
RetryBounded ==
    retry.max_attempts >= 1 =>
        /\ retry.calls <= retry.max_attempts
        /\ (retry.pc = "loop" =>
               /\ retry.calls = retry.attempt
               /\ retry.attempt < retry.max_attempts)
        /\ (retry.outcome.kind = "returned" =>
               /\ retry.pc = "done"
               /\ retry.calls = Len(retry.errors) + 1)
        /\ (Len(retry.errors) = retry.max_attempts =>
               /\ retry.pc = "done"
               /\ retry.outcome = Raised(retry.errors[retry.max_attempts]))
        /\ Len(retry.slept) <= retry.max_attempts - 1
        /\ \A n \in DOMAIN retry.slept :
              /\ retry.slept[n] >= retry.base_delay * Pow2(n - 1)
              /\ retry.slept[n] <= retry.base_delay * Pow2(n - 1) + 10

\* C21: for max_attempts >= 1 the api_retry wrapper ends after at most
\* max_attempts calls of the wrapped function: a success is returned with no
\* call after it, the error of the final attempt is raised even when it is
\* transient, and the delay before retry number n lies between
\* base_delay*2^n and base_delay*2^n + 1 seconds.
C21_RetryTerminates ==
    /\ []RetryBounded
    /\ (retry.pc = "loop" /\ retry.max_attempts >= 1) ~> (retry.pc = "done")

\* C21 witness: under max_attempts = 3 all three calls raised transient
\* errors, two delays were slept, the second at least twice the base delay,
\* and the third error was raised to the caller.
C21_Witness ==
    /\ retry.pc = "done"
    /\ retry.max_attempts = 3
    /\ retry.calls = 3
    /\ Len(retry.errors) = 3
    /\ \A i \in 1..3 : Transient(retry.errors[i])
    /\ retry.outcome = Raised(retry.errors[3])
    /\ Len(retry.slept) = 2
    /\ retry.slept[2] >= 2 * retry.base_delay


\* C22: call_claude_api under retry_with_backoff(max_retries=3,
\* base_delay=1.0) is re-invoked after a failed API call, with delays
\* base_delay*2^attempt, and an error reaches the caller only after the
\* fourth attempt has failed.
C22_ClaudeApiRetried ==
    (/\ retry.pc = "done"
     /\ retry.func = "call_claude_api"
     /\ retry.outcome.kind = "raised")
    => /\ retry.runs = 4
       /\ retry.slept = <<BackoffDelay(10, 0), BackoffDelay(10, 1),
                          BackoffDelay(10, 2)>>


LeadCall == fcall.fn = "_process_lead"

\* The sentence-ending marks of s among its first n characters, by position.
EndMarks(s, n) ==
    {i \in 1..Min(n, Len(s)) : s[i] \in {"fwperiod", "fwbang", "fwquestion"}}

\* The cut the claim describes: after the last sentence-ending mark of the
\* first 80 characters when its 0-based index exceeds 56, else 77
\* characters and "...".
ClaimedCut(s) ==
    IF \E i \in EndMarks(s, 80) : i - 1 > 56
    THEN SubSeq(s, 1, CHOOSE i \in EndMarks(s, 80) :
                         \A j \in EndMarks(s, 80) : j <= i)
    ELSE SubSeq(s, 1, 77) \o <<".", ".", ".">>

\* C23: a lead longer than 80 characters after whitespace collapsing is cut
\* right after the last full-width period, exclamation or question mark of
\* its first 80 characters when that mark is past index 56, and otherwise
\* to its first 77 characters and "..."; the returned lead is at most 80
\* characters long, and a lead of at most 80 characters is not truncated.
C23_LeadTruncation ==
    LeadCall =>
        /\ Len(fcall.result) <= 80
        /\ fcall.result =
              Strip(normalize_punctuation(
                  IF Len(JoinSplit(fcall.args.lead)) > 80
                  THEN ClaimedCut(JoinSplit(fcall.args.lead))
                  ELSE JoinSplit(fcall.args.lead)))

\* C23 witness: a lead of more than 80 characters whose last sentence mark
\* in the first 80 characters stands past index 56 was cut after that mark,
\* a second mark before it staying inside the result.
C23_Witness ==
    /\ LeadCall
    /\ Len(JoinSplit(fcall.args.lead)) > 80
    /\ \E i \in EndMarks(JoinSplit(fcall.args.lead), 80) :
          /\ i - 1 > 57
          /\ Len(fcall.result) = i
          /\ fcall.result[i] = JoinSplit(fcall.args.lead)[i]
          /\ \E j \in EndMarks(fcall.result, 80) : j < i


LatinMarks == {replacements[k][1] : k \in DOMAIN replacements}

\* The full-width mark a Latin mark is replaced with.
FullWidthOf(c) ==
    replacements[CHOOSE k \in DOMAIN replacements :
                    replacements[k][1] = c][2]

\* A call of _normalize_punctuation that collapsed no run, so that the
\* characters of the result stand at the positions they have in the input.
NormalizeCall ==
    /\ fcall.fn = "_normalize_punctuation"
    /\ Len(fcall.result) = Len(fcall.args.text)

\* C24: _normalize_punctuation converts a Latin ',', ';', ':', '!' or '?'
\* to its full-width mark exactly when, in the input text, it is neither
\* immediately preceded nor immediately followed by a digit, ':' or '/',
\* whatever the order in which the five marks are processed.
C24_ConvertedByInputContext ==
    NormalizeCall =>
        \A i \in DOMAIN fcall.args.text :
            fcall.args.text[i] \in LatinMarks =>
                (fcall.result[i] = FullWidthOf(fcall.args.text[i])
                 <=> /\ At(fcall.args.text, i - 1) \notin UrlOrDigit
                     /\ At(fcall.args.text, i + 1) \notin UrlOrDigit)


\* The number of places of full_text where one of the phrases stands.
Occurrences(phrases, full_text) ==
    Cardinality({<<i, p>> \in (DOMAIN phrases) \X (DOMAIN full_text) :
                    OccursAt(full_text, phrases[i], p)})

\* C25: in check_style_compliance the negative score is
\* max(0, 1.0 - 0.1*n) with n the number of occurrences of negative phrases
\* in the full text, a phrase occurring twice counting twice, and the style
\* score is 0.3*title + 0.3*lead + 0.3*terminology + 0.1*negative.
C25_NegativeOccurrences ==
    StyleCall =>
        /\ fcall.result.negative_score =
              Max(0, ScoreUnit
                     - 30 * Occurrences(NegativePhrases,
                                        Joined(fcall.args.rewritten)))
        /\ fcall.result.score =
              3 * fcall.result.title_score + 3 * fcall.result.lead_score
              + 3 * fcall.result.term_score + fcall.result.negative_score


\* The positions of s covered by a match <<start, length>>.
Span(match) == match[1]..(match[1] + match[2] - 1)

\* The positions of the text covered by an occurrence of a whitelisted name.
WhitelistCovered ==
    UNION {Span(<<q, Len(w)>>) :
             <<w, q>> \in {wq \in config.whitelist_orgs \X (DOMAIN text) :
                              OccursAt(text, wq[1], wq[2])}}

\* The matches of the generic pattern that became ORG entities of their
\* own: those whose value is not a whitelisted name.
PatternOrgMatches ==
    {m \in Range(FindIter("ORG", text)) :
        /\ Slice(text, m[1], m[2]) \notin config.whitelist_orgs
        /\ \E i \in DOMAIN entities :
              /\ entities[i].type = "ORG"
              /\ entities[i].value = Slice(text, m[1], m[2])}

\* C26: in extract_entities the whitelisted names are matched before the
\* generic pattern, and no part of the text covered by a whitelisted name is
\* also covered by a pattern-based ORG entity with another value.
C26_WhitelistSpansExclusive ==
    dpc # "start" =>
        \A m \in PatternOrgMatches : Span(m) \cap WhitelistCovered = {}


\* C28: extract_entities is deterministic: for one text and one configured
\* whitelist the list of (type, value, key) entities is the same whatever
\* the iteration order of the whitelist set, so each organization value has
\* the same ORG_n key on every run.
C28_ExtractDeterministic ==
    dpc # "start" =>
        \A order \in Orderings(config.whitelist_orgs) :
            entities = extract_entities(text, order)


\* A retrieve call of the XHFSampleRetriever has returned, over a corpus
\* whose samples differ from each other, so that an article stands for one
\* corpus document.
XhfRetrieved ==
    /\ rpc = "xhf_returned"
    /\ request.op = "retrieve"
    /\ \A i, j \in DOMAIN samples : i # j => samples[i] # samples[j]

\* C27: XHFSampleRetriever.retrieve never returns the same corpus document
\* twice in one result list, for every query, every article_type and every
\* corpus, the corpora whose samples carry no 'id' included.
C27_NoDuplicateDocuments ==
    XhfRetrieved =>
        \A i, j \in DOMAIN results :
            i # j => results[i].article # results[j].article


\* C29: while the corpus is unchanged search(q, k) returns an equal result
\* on every call with the same arguments, also after a caller has modified
\* the list, or a dict of the list, that an earlier call returned: every
\* search call returns what search computes over the corpus.
C29_ResultsNotShared ==
    [][ \A t \in Threads :
           (/\ kthreads[t].pc = "idle"
            /\ kthreads'[t].pc = "returned"
            /\ kthreads'[t].op = "search")
           => kthreads'[t].result =
                 KR_search(kcorpus', ktokenized',
                           kthreads'[t].query, kthreads'[t].topk)
      ]_vars


CheckCall == fcall.fn = "check"

===========================================================================
